---- MODULE Spec2Model ----
(***************************************************************************)
(* Model of the question-answering pipeline of the AskBase backend:        *)
(* handleAskRequest (src/src/controllers/askController.js) and the         *)
(* services it calls (aiService.js, sessionService.js, helpers.js,         *)
(* config/database.js, databaseService.js, chartService.js).               *)
(*                                                                         *)
(* Text is modelled as a sequence of one-character strings, so that the    *)
(* string functions of the code (includes, trim, split, replace) are       *)
(* computed on the characters as the code computes them.                   *)
(***************************************************************************)
EXTENDS Integers, Sequences, FiniteSets, TLC

(***************************************************************************)
(* JavaScript string primitives                                            *)
(***************************************************************************)

\* the value null / undefined where the code expects a string
Null == <<"<null>">>

UpperAlpha ==
  <<"A","B","C","D","E","F","G","H","I","J","K","L","M",
    "N","O","P","Q","R","S","T","U","V","W","X","Y","Z">>

LowerAlpha ==
  <<"a","b","c","d","e","f","g","h","i","j","k","l","m",
    "n","o","p","q","r","s","t","u","v","w","x","y","z">>

Digits == <<"0","1","2","3","4","5","6","7","8","9">>

IsSpace(c) == c \in {" ", "\t", "\n"}

IsLower(c) == \E i \in 1..26 : LowerAlpha[i] = c

IsUpper(c) == \E i \in 1..26 : UpperAlpha[i] = c

IsDigit(c) == \E i \in 1..10 : Digits[i] = c

\* \w of a JavaScript regular expression
IsWordChar(c) == IsLower(c) \/ IsUpper(c) \/ IsDigit(c) \/ c = "_"

LowerChar(c) ==
  IF IsUpper(c) THEN LowerAlpha[CHOOSE i \in 1..26 : UpperAlpha[i] = c] ELSE c

UpperChar(c) ==
  IF IsLower(c) THEN UpperAlpha[CHOOSE i \in 1..26 : LowerAlpha[i] = c] ELSE c

\* F applied to the value of v: as in JavaScript, an argument is evaluated once,
\* before the call
Call(F(_), v) == CHOOSE y \in {F(x) : x \in {v}} : TRUE

toLowerCase(s) == Call(LAMBDA x : [i \in 1..Len(x) |-> LowerChar(x[i])], s)

toUpperCase(s) == Call(LAMBDA x : [i \in 1..Len(x) |-> UpperChar(x[i])], s)

Min(S) == CHOOSE x \in S : \A y \in S : x <= y

Max(S) == CHOOSE x \in S : \A y \in S : x >= y

\* the pattern p occurs in s at position i
MatchAt(s, i, p) ==
  /\ i >= 1
  /\ i + Len(p) - 1 <= Len(s)
  /\ \A k \in 1..Len(p) : s[i + k - 1] = p[k]

\* the same, ignoring case (the i flag of a regular expression)
MatchAtCI(s, i, p) ==
  /\ i >= 1
  /\ i + Len(p) - 1 <= Len(s)
  /\ \A k \in 1..Len(p) : UpperChar(s[i + k - 1]) = UpperChar(p[k])

\* String.prototype.includes
includes(s, p) == \E x \in {s} : \E i \in 1..(Len(x) - Len(p) + 1) : MatchAt(x, i, p)

\* String.prototype.trim
trim(s) ==
  LET Trimmed(x) ==
        LET solid == {i \in 1..Len(x) : ~IsSpace(x[i])}
        IN  IF solid = {} THEN <<>> ELSE SubSeq(x, Min(solid), Max(solid))
  IN  Call(Trimmed, s)

\* the first position at or after i that holds no white space (Len(s)+1 if none)
SkipSpace(s, i) ==
  Min({j \in i..(Len(s) + 1) :
         (j = Len(s) + 1 \/ ~IsSpace(s[j])) /\ \A k \in i..(j - 1) : IsSpace(s[k])})

\* the position of the last character that is no white space (0 if none)
LastSolid(s) ==
  LET solid == {i \in 1..Len(s) : ~IsSpace(s[i])}
  IN  IF solid = {} THEN 0 ELSE Max(solid)

\* the number of occurrences of the character c in s
CountChar(s, c) == Cardinality({i \in 1..Len(s) : s[i] = c})

RECURSIVE SplitFrom(_, _, _, _)
SplitFrom(s, i, sep, cur) ==
  IF i > Len(s) THEN <<cur>>
  ELSE IF s[i] = sep THEN <<cur>> \o SplitFrom(s, i + 1, sep, <<>>)
  ELSE SplitFrom(s, i + 1, sep, Append(cur, s[i]))

\* String.prototype.split with a one-character separator
split(s, sep) == Call(LAMBDA x : SplitFrom(x, 1, sep, <<>>), s)

RECURSIVE join(_, _)
\* Array.prototype.join
join(parts, sep) ==
  IF Len(parts) = 0 THEN <<>>
  ELSE IF Len(parts) = 1 THEN parts[1]
  ELSE parts[1] \o sep \o join(Tail(parts), sep)

\* Array.prototype.slice(0, n)
sliceFirst(xs, n) == SubSeq(xs, 1, IF Len(xs) < n THEN Len(xs) ELSE n)

\* Array.prototype.slice(-n)
sliceLast(xs, n) == SubSeq(xs, IF Len(xs) > n THEN Len(xs) - n + 1 ELSE 1, Len(xs))

RECURSIVE FilterSeq(_, _)
\* the elements of xs that are in the set S, in the order of xs
FilterSeq(xs, S) ==
  IF Len(xs) = 0 THEN <<>>
  ELSE IF xs[1] \in S THEN <<xs[1]>> \o FilterSeq(Tail(xs), S)
  ELSE FilterSeq(Tail(xs), S)

Range(xs) == {xs[i] : i \in 1..Len(xs)}

RECURSIVE NatStr(_)
\* String(n) for a natural number n
NatStr(n) == IF n < 10 THEN <<Digits[n + 1]>> ELSE NatStr(n \div 10) \o <<Digits[(n % 10) + 1]>>

(***************************************************************************)
(* Text constants of the code                                              *)
(***************************************************************************)

kSELECT == <<"S","E","L","E","C","T">>

kSelect1 == kSELECT \o <<" ","1">>

kFROM == <<" ","F","R","O","M"," ">>

kLIMIT5 == <<" ","L","I","M","I","T"," ","5",";">>

kOrderBy == <<"o","r","d","e","r"," ","b","y">>

kORDERBY1 == <<" ","O","R","D","E","R"," ","B","Y"," ","1",";">>

kEXTRACT == <<"E","X","T","R","A","C","T","(">>

kYEAR == <<"Y","E","A","R">>

kMONTH == <<"M","O","N","T","H">>

kDAY == <<"D","A","Y">>

kNOW == <<"N","O","W">>

kCURRENT_TIMESTAMP ==
  <<"C","U","R","R","E","N","T","_","T","I","M","E","S","T","A","M","P">>

\* the backquote character (a TLA+ string cannot hold it)
Backquote == "BACKQUOTE"

kFence == <<Backquote, Backquote, Backquote>>

kFenceSql == kFence \o <<"s","q","l">>

kComma == <<",", " ">>

Quoted(name) == <<"\"">> \o name \o <<"\"">>

(***************************************************************************)
(* helpers.js: cleanSQLResponse                                            *)
(***************************************************************************)

RECURSIVE RemoveAll(_, _, _)
\* replace(/<pat>\s*/g, ''): every occurrence of pat and the white space after it
RemoveAll(s, i, pat) ==
  IF i > Len(s) THEN <<>>
  ELSE IF MatchAt(s, i, pat) THEN RemoveAll(s, SkipSpace(s, i + Len(pat)), pat)
  ELSE <<s[i]>> \o RemoveAll(s, i + 1, pat)

\* replace(/<fence>\s*$/g, ''): a fence that only white space follows, at the end
RemoveFenceAtEnd(s) ==
  LET e == LastSolid(s)
  IN  IF e >= 3 /\ MatchAt(s, e - 2, kFence) THEN SubSeq(s, 1, e - 3) ELSE s

\* the match of /NAME\s*\(\s*([^)]+)\s*\)/i at position i: the group and the
\* position of the closing parenthesis
CallMatch(s, i, name) ==
  LET open   == SkipSpace(s, i + Len(name))
      closes == {j \in (open + 1)..Len(s) : s[j] = ")"}
      close  == Min(closes)
      first  == SkipSpace(s, open + 1)
  IN  IF /\ MatchAtCI(s, i, name)
         /\ open <= Len(s)
         /\ s[open] = "("
         /\ closes # {}
         /\ close > open + 1
      THEN [ok |-> TRUE,
            arg |-> IF first < close THEN SubSeq(s, first, close - 1)
                    ELSE SubSeq(s, close - 1, close - 1),
            end |-> close]
      ELSE [ok |-> FALSE, arg |-> <<>>, end |-> i]

RECURSIVE FixDateCall(_, _, _)
\* replace(/NAME\s*\(\s*([^)]+)\s*\)/gi, 'EXTRACT(NAME FROM $1)')
FixDateCall(s, i, name) ==
  IF i > Len(s) THEN <<>>
  ELSE LET m == CallMatch(s, i, name)
       IN  IF m.ok
           THEN kEXTRACT \o name \o kFROM \o m.arg \o <<")">>
                  \o FixDateCall(s, m.end + 1, name)
           ELSE <<s[i]>> \o FixDateCall(s, i + 1, name)

RECURSIVE FixBackticks(_, _)
\* replace(/BQ([^BQ]+)BQ/g, '"$1"'), BQ the backquote
FixBackticks(s, i) ==
  IF i > Len(s) THEN <<>>
  ELSE LET later == {j \in (i + 1)..Len(s) : s[j] = Backquote}
           close == Min(later)
       IN  IF s[i] = Backquote /\ later # {} /\ close > i + 1
           THEN Quoted(SubSeq(s, i + 1, close - 1)) \o FixBackticks(s, close + 1)
           ELSE <<s[i]>> \o FixBackticks(s, i + 1)

RECURSIVE FixNow(_, _)
\* replace(/NOW\s*\(\s*\)/gi, 'CURRENT_TIMESTAMP')
FixNow(s, i) ==
  IF i > Len(s) THEN <<>>
  ELSE LET open  == SkipSpace(s, i + Len(kNOW))
           close == SkipSpace(s, open + 1)
       IN  IF /\ MatchAtCI(s, i, kNOW)
              /\ open <= Len(s)
              /\ s[open] = "("
              /\ close <= Len(s)
              /\ s[close] = ")"
           THEN kCURRENT_TIMESTAMP \o FixNow(s, close + 1)
           ELSE <<s[i]>> \o FixNow(s, i + 1)

\* replace(/q([^q]*)$/g, "q$1q") for a quote character q: the text from the
\* last q to the end gets a q appended
CloseQuote(s, q) == IF \E i \in 1..Len(s) : s[i] = q THEN Append(s, q) ELSE s

\* replace(/['"]\s*$/g, ''): a quote that only white space follows, at the end
DropTrailingQuote(s) ==
  LET e == LastSolid(s)
  IN  IF e >= 1 /\ s[e] \in {"'", "\""} THEN SubSeq(s, 1, e - 1) ELSE s

RECURSIVE CollapseSemicolons(_, _)
\* replace(/;+/g, ';')
CollapseSemicolons(s, i) ==
  IF i > Len(s) THEN <<>>
  ELSE IF s[i] = ";" /\ i > 1 /\ s[i - 1] = ";" THEN CollapseSemicolons(s, i + 1)
  ELSE <<s[i]>> \o CollapseSemicolons(s, i + 1)

\* replace(/^\s*SELECT\s*$/i, 'SELECT 1')
BareSelect(s) ==
  LET t == trim(s)
  IN  IF Len(t) = Len(kSELECT) /\ MatchAtCI(t, 1, kSELECT) THEN kSelect1 ELSE s

\* replace(/^\s*;\s*$/, 'SELECT 1;')
BareSemicolon(s) == IF trim(s) = <<";">> THEN kSelect1 \o <<";">> ELSE s

RECURSIVE DropTrailingSemicolons(_)
\* replace(/;+$/, '')
DropTrailingSemicolons(s) ==
  IF Len(s) > 0 /\ s[Len(s)] = ";" THEN DropTrailingSemicolons(SubSeq(s, 1, Len(s) - 1))
  ELSE s

\* the replacements of cleanSQLResponse, each applied to the result of the one before
\* trims the text and appends a semicolon
cleanSQLResponseAppending(sqlResponse) == Append(trim(sqlResponse), ";")

cleanSQLResponse(sqlResponse) ==
  LET a == Call(RemoveFenceAtEnd, Call(LAMBDA s : RemoveAll(s, 1, kFenceSql), sqlResponse))
      b == Call(RemoveFenceAtEnd, Call(LAMBDA s : RemoveAll(s, 1, kFence), a))
      c == trim(b)
      d == Call(LAMBDA s : FixDateCall(s, 1, kYEAR), c)
      e == Call(LAMBDA s : FixDateCall(s, 1, kMONTH), d)
      f == Call(LAMBDA s : FixDateCall(s, 1, kDAY), e)
      g == Call(LAMBDA s : FixBackticks(s, 1), f)
      h == Call(LAMBDA s : FixNow(s, 1), g)
      k == Call(LAMBDA s : CloseQuote(s, "'"), h)
      l == Call(LAMBDA s : CloseQuote(s, "\""), k)
      m == Call(DropTrailingQuote, l)
      n == Call(LAMBDA s : CollapseSemicolons(s, 1), m)
      o == Call(BareSemicolon, Call(BareSelect, n))
  IN  Append(Call(DropTrailingSemicolons, o), ";")

(***************************************************************************)
(* helpers.js: validateSQL                                                 *)
(***************************************************************************)

\* accepts every text that holds SELECT
validateSQLSelectOnly(sql) ==
  IF sql # Null /\ includes(toUpperCase(sql), kSELECT)
  THEN [valid |-> TRUE, error |-> ""]
  ELSE [valid |-> FALSE, error |-> "SQL must start with SELECT"]

validateSQL(sql) == Call(LAMBDA trimmed :
      IF sql = Null \/ Len(sql) = 0
        THEN [valid |-> FALSE, error |-> "SQL query is empty or invalid"]
      ELSE IF Len(trimmed) = 0 \/ trimmed = <<";">>
        THEN [valid |-> FALSE, error |-> "SQL query is empty"]
      ELSE IF CountChar(trimmed, "'") % 2 # 0
        THEN [valid |-> FALSE, error |-> "Unterminated single quotes"]
      ELSE IF CountChar(trimmed, "\"") % 2 # 0
        THEN [valid |-> FALSE, error |-> "Unterminated double quotes"]
      ELSE IF ~includes(toUpperCase(trimmed), kSELECT)
        THEN [valid |-> FALSE, error |-> "SQL must start with SELECT"]
      ELSE [valid |-> TRUE, error |-> ""],
    trim(sql))

(***************************************************************************)
(* aiService.js: the deterministic SQL fallbacks                           *)
(***************************************************************************)

\* columns.map(col => col.name)
ColumnNames(columns) == [i \in 1..Len(columns) |-> columns[i].name]

\* columns.map(col => the name in double quotes)
QuotedColumnNames(columns) == [i \in 1..Len(columns) |-> Quoted(columns[i].name)]

\* askAIForSQL without an LLM answer: SELECT <columns> FROM "<first table>" LIMIT 5;
simpleSelectFallback(relevantTables) ==
  IF Len(relevantTables) > 0
  THEN kSELECT \o <<" ">> \o join(ColumnNames(relevantTables[1].columns), kComma)
         \o kFROM \o Quoted(relevantTables[1].name) \o kLIMIT5
  ELSE kSelect1 \o <<";">>

generateFallbackSQL(relevantTables, question) ==
  IF Len(relevantTables) = 0 THEN kSelect1 \o <<";">>
  ELSE IF Len(relevantTables[1].columns) = 0
    THEN kSELECT \o <<" ","*">> \o kFROM \o Quoted(relevantTables[1].name) \o kLIMIT5
  ELSE kSELECT \o <<" ">>
         \o join(QuotedColumnNames(sliceFirst(relevantTables[1].columns, 3)), kComma)
         \o kFROM \o Quoted(relevantTables[1].name) \o kLIMIT5

(***************************************************************************)
(* aiService.js: askAIForRelevantTables, the parts that are pure           *)
(***************************************************************************)

followUpIndicators ==
  <<<<"m","o","r","e">>,
    <<"d","e","t","a","i","l","s">>,
    <<"s","h","o","w">>,
    <<"f","i","l","t","e","r">>,
    <<"s","o","r","t">>,
    <<"o","r","d","e","r">>,
    <<"l","i","m","i","t">>,
    <<"t","o","p">>,
    <<"r","e","c","e","n","t">>,
    <<"l","a","t","e","s","t">>,
    <<"p","r","e","v","i","o","u","s">>,
    <<"l","a","s","t">>>>

\* questionLower.includes(table) || questionLower.split(' ').some(word => table.includes(word))
KeywordMatch(questionLower, table) ==
  \/ includes(questionLower, toLowerCase(table))
  \/ \E word \in Range(split(questionLower, " ")) : includes(toLowerCase(table), word)

\* the keyword fallback without the limit of two tables
keywordFallbackUncut(question, allTables, chatHistory) ==
  LET questionLower == toLowerCase(question)
  IN  IF /\ \E i \in 1..Len(followUpIndicators) : includes(questionLower, followUpIndicators[i])
         /\ Len(chatHistory) > 0
      THEN chatHistory[Len(chatHistory)].tables_used
      ELSE FilterSeq(allTables, {tb \in Range(allTables) : KeywordMatch(questionLower, tb)})

\* the branch taken when no LLM key is configured
keywordFallback(question, allTables, chatHistory) ==
  LET questionLower == toLowerCase(question)
  IN  IF /\ \E i \in 1..Len(followUpIndicators) : includes(questionLower, followUpIndicators[i])
         /\ Len(chatHistory) > 0
      THEN chatHistory[Len(chatHistory)].tables_used
      ELSE sliceFirst(FilterSeq(allTables,
                        {tb \in Range(allTables) : KeywordMatch(questionLower, tb)}), 2)

RECURSIVE TrimEach(_)
TrimEach(parts) == IF Len(parts) = 0 THEN <<>> ELSE <<trim(parts[1])>> \o TrimEach(Tail(parts))

\* aiResponse.split(',').map(table => table.trim()).filter(table => allTables.includes(table))
parseRelevantTables(aiResponse, allTables) ==
  LET Known(names) == FilterSeq(names, Range(allTables))
  IN  Call(Known, Call(TrimEach, split(trim(aiResponse), ",")))

(***************************************************************************)
(* askController.js: reuse of the previous query for a visualization       *)
(***************************************************************************)

vizWords ==
  <<<<"c","h","a","r","t">>,
    <<"g","r","a","p","h">>,
    <<"b","a","r">>,
    <<"p","i","e">>,
    <<"l","i","n","e">>,
    <<"v","i","s","u","a","l","i","z","e">>,
    <<"v","i","s","u","a","l","i","s","e">>>>

\* /(chart|graph|bar|pie|line|visualize|visualise)/i.test(question)
isVisualizationRequest(question) ==
  \E i \in 1..Len(vizWords) : includes(toLowerCase(question), vizWords[i])

\* chatHistory.length > 0 && chatHistory[chatHistory.length - 1].sql_query
hasPreviousResults(chatHistory) ==
  Len(chatHistory) > 0 /\ Len(chatHistory[Len(chatHistory)].sql_query) > 0

\* previousQuery.replace(/;?\s*$/, ' ORDER BY 1;'), unless it holds 'order by'
\* the previous query with ORDER BY 1 put at its end in every case
previousQueryOrdered(previousQuery) ==
  LET e   == LastSolid(previousQuery)
      cut == IF e >= 1 /\ previousQuery[e] = ";" THEN e - 1 ELSE e
  IN  SubSeq(previousQuery, 1, cut) \o kORDERBY1

reusePreviousQuery(previousQuery) ==
  LET e   == LastSolid(previousQuery)
      cut == IF e >= 1 /\ previousQuery[e] = ";" THEN e - 1 ELSE e
  IN  IF includes(toLowerCase(previousQuery), kOrderBy) THEN previousQuery
      ELSE SubSeq(previousQuery, 1, cut) \o kORDERBY1

(***************************************************************************)
(* chartService.js: detectChartRequest and generateChartData               *)
(***************************************************************************)

\* /\b<w>\b/.test(s)
HasWord(s, w) ==
  \E x \in {s} : \E i \in 1..(Len(x) - Len(w) + 1) :
    /\ MatchAt(x, i, w)
    /\ (i = 1 \/ ~IsWordChar(x[i - 1]))
    /\ (i + Len(w) > Len(x) \/ ~IsWordChar(x[i + Len(w)]))

\* chartPatterns: the alternatives of each type. The alternatives left out
\* ('bar chart', 'show ... bar', 'visualize ... bar', 'correlation between')
\* each contain one of those listed, between the same word boundaries.
barPatterns ==
    {<<"b","a","r">>,
     <<"b","a","r","s">>}

linePatterns ==
    {<<"l","i","n","e">>,
     <<"t","r","e","n","d">>,
     <<"t","r","e","n","d","s">>,
     <<"o","v","e","r"," ","t","i","m","e">>,
     <<"t","i","m","e"," ","s","e","r","i","e","s">>,
     <<"t","i","m","e","l","i","n","e">>}

piePatterns ==
    {<<"p","i","e">>,
     <<"p","e","r","c","e","n","t","a","g","e">>,
     <<"p","r","o","p","o","r","t","i","o","n">>,
     <<"d","i","s","t","r","i","b","u","t","i","o","n">>,
     <<"b","r","e","a","k","d","o","w","n">>,
     <<"c","o","m","p","o","s","i","t","i","o","n">>,
     <<"s","p","l","i","t">>}

scatterPatterns ==
    {<<"s","c","a","t","t","e","r">>,
     <<"c","o","r","r","e","l","a","t","i","o","n">>,
     <<"r","e","l","a","t","i","o","n","s","h","i","p"," ","b","e","t","w","e","e","n">>}

vizKeywords ==
    {<<"c","h","a","r","t">>,
     <<"g","r","a","p","h">>,
     <<"p","l","o","t">>,
     <<"v","i","s","u","a","l","i","z","e">>,
     <<"v","i","s","u","a","l","i","s","e">>,
     <<"d","i","a","g","r","a","m">>}

detectChartRequest(question) ==
  LET questionLower == toLowerCase(question)
      hit(pats) == \E w \in pats : HasWord(questionLower, w)
  IN  IF hit(barPatterns) THEN [type |-> "bar", requested |-> TRUE, confidence |-> "high"]
      ELSE IF hit(linePatterns) THEN [type |-> "line", requested |-> TRUE, confidence |-> "high"]
      ELSE IF hit(piePatterns) THEN [type |-> "pie", requested |-> TRUE, confidence |-> "high"]
      ELSE IF hit(scatterPatterns)
        THEN [type |-> "scatter", requested |-> TRUE, confidence |-> "high"]
      ELSE IF \E w \in vizKeywords : includes(questionLower, w)
        THEN [type |-> "bar", requested |-> TRUE, confidence |-> "medium"]
      ELSE [type |-> "null", requested |-> FALSE, confidence |-> "none"]

\* A value of a result row: text, a number or null.
StrVal(s) == [t |-> "str", s |-> s, n |-> 0]

NumVal(n) == [t |-> "num", s |-> <<>>, n |-> n]

NullVal == [t |-> "null", s |-> <<>>, n |-> 0]

\* String(value)
String(v) ==
  IF v.t = "str" THEN v.s
  ELSE IF v.t = "num" THEN (IF v.n < 0 THEN <<"-">> \o NatStr(0 - v.n) ELSE NatStr(v.n))
  ELSE <<"n","u","l","l">>

DigitValue(c) == (CHOOSE i \in 1..10 : Digits[i] = c) - 1

RECURSIVE DigitsValue(_, _, _)
\* the value of the digits of s from position i on, acc the value read so far
DigitsValue(s, i, acc) ==
  IF i <= Len(s) /\ IsDigit(s[i]) THEN DigitsValue(s, i + 1, acc * 10 + DigitValue(s[i]))
  ELSE acc

\* parseFloat(value): white space, a sign, then digits; NaN when no digit
\* follows. (The texts of the model hold no decimal point or exponent.)
parseFloat(v) ==
  LET start  == SkipSpace(v.s, 1)
      signed == start <= Len(v.s) /\ v.s[start] \in {"-", "+"}
      first  == IF signed THEN start + 1 ELSE start
      mag    == DigitsValue(v.s, first, 0)
  IN  IF v.t = "num" THEN [nan |-> FALSE, val |-> v.n]
      ELSE IF v.t = "str" /\ first <= Len(v.s) /\ IsDigit(v.s[first])
        THEN [nan |-> FALSE, val |-> IF signed /\ v.s[start] = "-" THEN 0 - mag ELSE mag]
      ELSE [nan |-> TRUE, val |-> 0]

\* the absence of a chart (null)
NoChart == [type |-> "null", labels |-> <<>>, data |-> <<>>, label |-> <<>>]

RECURSIVE PickFrom(_, _, _)
\* the elements of xs at the positions in I that are at or after i, in order
PickFrom(xs, i, I) ==
  IF i > Len(xs) THEN <<>>
  ELSE IF i \in I THEN <<xs[i]>> \o PickFrom(xs, i + 1, I)
  ELSE PickFrom(xs, i + 1, I)

\* a chart of every row, numeric or not
generateChartDataOfAllRows(results, chartType) ==
  IF Len(results) = 0 \/ chartType \notin {"bar", "line", "pie", "scatter"} THEN NoChart
  ELSE [type   |-> chartType,
        labels |-> [i \in 1..Len(results) |-> String(results[i][1].v)],
        data   |-> [i \in 1..Len(results) |-> parseFloat(results[i][2].v).val],
        label  |-> results[1][2].k]

\* A row is the sequence of its [k, v] entries, in the order of Object.keys.
generateChartData(results, chartType) ==
  IF Len(results) = 0 THEN NoChart
  ELSE IF Len(results[1]) < 2 THEN NoChart
  ELSE IF chartType \in {"bar", "line", "pie"} THEN
    LET numeric(row) == Len(row) >= 2 /\ ~parseFloat(row[2].v).nan
        rows == PickFrom(results, 1, {i \in 1..Len(results) : numeric(results[i])})
    IN  IF Len(rows) = 0 THEN NoChart
        ELSE [type   |-> chartType,
              labels |-> [i \in 1..Len(rows) |-> String(rows[i][1].v)],
              data   |-> [i \in 1..Len(rows) |-> parseFloat(rows[i][2].v).val],
              label  |-> results[1][2].k]
  ELSE IF chartType = "scatter" THEN
    IF Len(results[1]) < 3 THEN NoChart
    ELSE
    LET numeric(row) ==
          Len(row) >= 3 /\ ~parseFloat(row[1].v).nan /\ ~parseFloat(row[2].v).nan
        rows == PickFrom(results, 1, {i \in 1..Len(results) : numeric(results[i])})
    IN  IF Len(rows) = 0 THEN NoChart
        ELSE [type   |-> "scatter",
              labels |-> [i \in 1..Len(rows) |-> String(rows[i][3].v)],
              data   |-> [i \in 1..Len(rows) |->
                            <<parseFloat(rows[i][1].v).val, parseFloat(rows[i][2].v).val>>],
              label  |-> results[1][2].k]
  ELSE NoChart

(***************************************************************************)
(* aiService.js: generateNaturalLanguageAnswer, the parts that are pure    *)
(***************************************************************************)

\* `Found ${results.length} results from the query.`
foundResultsAnswer(results) ==
  <<"F","o","u","n","d"," ">> \o NatStr(Len(results))
    \o <<" ","r","e","s","u","l","t","s"," ","f","r","o","m"," ","t","h","e"," ","q","u","e","r","y",".">>

\* Object.entries(r).map(([k,v]) => `${k}: ${v}`).join(', ')
RowText(row) ==
  join([i \in 1..Len(row) |-> row[i].k \o <<":", " ">> \o String(row[i].v)], kComma)

\* `The query returned ${results.length} results. ${fallbackData}`
templatedAnswer(results) ==
  LET shown == sliceFirst(results, 3)
  IN  <<"T","h","e"," ","q","u","e","r","y"," ","r","e","t","u","r","n","e","d"," ">> \o NatStr(Len(results))
        \o <<" ","r","e","s","u","l","t","s","."," ">>
        \o join([i \in 1..Len(shown) |-> RowText(shown[i])], <<";", " ">>)

\* results.some(result => Object.values(result).some(value => aiResponse.includes(String(value))))
hasActualData(aiResponse, results) ==
  \E i \in 1..Len(results) : \E j \in 1..Len(results[i]) :
    includes(aiResponse, String(results[i][j].v))

\* the answer returned for the LLM text aiResponse
groundedAnswer(aiResponse, results) ==
  IF Len(results) > 0 /\ ~hasActualData(aiResponse, results) THEN templatedAnswer(results)
  ELSE aiResponse

(***************************************************************************)
(* The data of the runs: the target database, the questions clients ask,   *)
(* the texts the LLM returns and the rows the database returns.            *)
(***************************************************************************)

tOrders == <<"o","r","d","e","r","s">>

tUsers == <<"u","s","e","r","s">>

Column(name, type) == [name |-> name, type |-> type, nullable |-> FALSE]

\* information_schema.columns of the target database, by ordinal position
ColumnsOf(tableName) ==
  IF tableName = tOrders
    THEN <<Column(<<"i","d">>, "integer"), Column(<<"t","o","t","a","l">>, "numeric")>>
  ELSE IF tableName = tUsers
    THEN <<Column(<<"i","d">>, "integer"), Column(<<"n","a","m","e">>, "text")>>
  ELSE <<>>

Entry(k, v) == [k |-> k, v |-> v]

qShowUsers == <<"s","h","o","w"," ","u","s","e","r","s">>

qListOrders == <<"l","i","s","t"," ","o","r","d","e","r","s">>

qBarChart == <<"b","a","r"," ","c","h","a","r","t"," ","o","f"," ","i","t">>

qHello == <<"h","e","l","l","o">>

qChartUsers == <<"c","h","a","r","t"," ","u","s","e","r","s">>

qScatterUsers == <<"s","c","a","t","t","e","r"," ","u","s","e","r","s">>

\* texts the LLM returns to the relevance prompt
relUsers == <<"u","s","e","r","s">>

relOrdersAndUnknown == <<"o","r","d","e","r","s",","," ","s","a","l","e","s",","," ","u","s","e","r","s">>

relUnknown == <<"s","a","l","e","s">>

\* texts the LLM returns to the SQL prompt
sqlFenced ==
  kFenceSql \o <<"\n">> \o kSELECT \o <<" ","\"","n","a","m","e","\""," ","F","R","O","M"," ","\"","u","s","e","r","s","\"",";">> \o <<"\n">> \o kFence

sqlUnterminated == kSELECT \o <<" ","'","x">>

sqlTwoStatements ==
  kSELECT \o <<" ","1",";"," ","D","R","O","P"," ","T","A","B","L","E"," ","u","s","e","r","s">>

sqlNoSelect == <<"D","R","O","P"," ","T","A","B","L","E"," ","u","s","e","r","s">>

\* texts the LLM returns to the answer prompt
ansGrounded == <<"a","n","n"," ","h","a","s"," ","1","2">>

ansGeneric == <<"H","e","r","e"," ","y","o","u"," ","g","o">>

\* rows the database returns
\* rows of three columns: numeric x and y in the first, no numeric y in the second
rowsXY ==
  << <<Entry(<<"x">>, StrVal(<<"3">>)), Entry(<<"y">>, NumVal(4)),
       Entry(<<"n","a","m","e">>, StrVal(<<"a","n","n">>))>>,
     <<Entry(<<"x">>, NumVal(5)), Entry(<<"y">>, NullVal),
       Entry(<<"n","a","m","e">>, StrVal(<<"b","o","b">>))>> >>

\* rows of three columns without a numeric y
rowsNoY ==
  << <<Entry(<<"x">>, NumVal(5)), Entry(<<"y">>, StrVal(<<"n","/","a">>)),
       Entry(<<"n","a","m","e">>, StrVal(<<"b","o","b">>))>> >>

rowsNameCount ==
  << <<Entry(<<"n","a","m","e">>, StrVal(<<"a","n","n">>)), Entry(<<"c">>, NumVal(12))>>,
     <<Entry(<<"n","a","m","e">>, StrVal(<<"b","o","b">>)), Entry(<<"c">>, StrVal(<<"x">>))>> >>

\* a turn stored by an earlier request: 'list users' answered in fallback mode
priorTurn ==
  [question             |-> <<"l","i","s","t"," ","u","s","e","r","s">>,
   sql_query            |-> simpleSelectFallback(<<[name |-> tUsers, columns |-> ColumnsOf(tUsers)]>>),
   tables_used          |-> <<tUsers>>,
   result_count         |-> 0,
   result_sample        |-> <<>>,
   natural_answer       |-> foundResultsAnswer(<<>>),
   is_followup_question |-> FALSE,
   chart_data           |-> NoChart]

Session(id, messages) == [session_id |-> id, messages |-> messages]

\* One client, every input: the runs of a single request.
FullLoad ==
  [clients       |-> {1},
   keys          |-> BOOLEAN,
   stores        |-> {<<>>, <<Session("s1", <<priorTurn>>)>>},
   warm          |-> BOOLEAN,
   questions     |-> {<<>>, qShowUsers, qListOrders, qBarChart, qHello},
   sessionIds    |-> {"", "s1"},
   connectionIds |-> [c \in {1} |-> {"", "c1", "c0", "bad"}],
   tableLists    |-> {<<tOrders, tUsers>>, <<>>},
   relevanceText |-> {relUsers, relOrdersAndUnknown, relUnknown},
   sqlText       |-> {sqlFenced, sqlUnterminated, sqlNoSelect},
   answerText    |-> {ansGrounded, ansGeneric},
   resultSets    |-> {<<>>, rowsNameCount},
   faults        |-> {"store", "tables", "columns", "relevance", "sqlgen", "answer", "query"}]

\* Two clients at once, on the same session: the interleavings of two requests,
\* where only the relevance call and the query can fail.
ConcurrentLoad ==
  [clients       |-> {1, 2},
   keys          |-> BOOLEAN,
   stores        |-> {<<>>},
   warm          |-> {FALSE},
   questions     |-> {qChartUsers},
   sessionIds    |-> {"s1"},
   connectionIds |-> [c \in {1, 2} |-> IF c = 1 THEN {"", "c1"} ELSE {""}],
   tableLists    |-> {<<tOrders, tUsers>>},
   relevanceText |-> {relUsers},
   sqlText       |-> {sqlFenced},
   answerText    |-> {ansGrounded},
   resultSets    |-> {rowsNameCount},
   faults        |-> {"relevance", "query"}]

\* One client and every failure, on one text of each kind: the runs whose
\* termination is examined.
FairLoad ==
  [clients       |-> {1},
   keys          |-> BOOLEAN,
   stores        |-> {<<Session("s1", <<priorTurn>>)>>},
   warm          |-> {FALSE},
   questions     |-> {qShowUsers, qBarChart},
   sessionIds    |-> {"", "s1"},
   connectionIds |-> [c \in {1} |-> {"", "c1"}],
   tableLists    |-> {<<tOrders, tUsers>>},
   relevanceText |-> {relUsers},
   sqlText       |-> {sqlFenced},
   answerText    |-> {ansGrounded},
   resultSets    |-> {rowsNameCount},
   faults        |-> {"store", "tables", "columns", "relevance", "sqlgen", "answer", "query"}]

\* the requests of the model
Reqs == {1, 2}

\* the largest count of LLM calls the model tells apart (larger counts are
\* recorded as this one)
MaxLLMCalls == 3

\* getConversationContext(currentSessionId, 6)
HistoryLimit == 6

(***************************************************************************)
(* State                                                                   *)
(***************************************************************************)

\* seven stored turns, told apart by their result count
sevenTurns == [i \in 1..7 |-> [priorTurn EXCEPT !.result_count = i]]

\* the turn a visualization follow-up of priorTurn stored
orderedTurn == [priorTurn EXCEPT !.sql_query = reusePreviousQuery(priorTurn.sql_query)]

\* a session with more turns than a request reads, and one whose last turn has
\* SQL with ORDER BY
HistoryLoad ==
  [clients       |-> {1},
   keys          |-> BOOLEAN,
   stores        |-> {<<Session("s1", sevenTurns)>>, <<Session("s1", <<priorTurn, orderedTurn>>)>>},
   warm          |-> {FALSE},
   questions     |-> {qShowUsers, qBarChart},
   sessionIds    |-> {"", "s1"},
   connectionIds |-> [c \in {1} |-> {"", "c1"}],
   tableLists    |-> {<<tOrders, tUsers>>},
   relevanceText |-> {relUsers},
   sqlText       |-> {sqlFenced},
   answerText    |-> {ansGrounded},
   resultSets    |-> {rowsNameCount},
   faults        |-> {"store", "tables", "columns", "relevance", "sqlgen", "answer", "query"}]

\* LLM replies of one and of two statements
ExecuteLoad ==
  [clients       |-> {1},
   keys          |-> BOOLEAN,
   stores        |-> {<<Session("s1", <<priorTurn>>)>>},
   warm          |-> {FALSE},
   questions     |-> {qShowUsers, qBarChart},
   sessionIds    |-> {"", "s1"},
   connectionIds |-> [c \in {1} |-> {"", "c1"}],
   tableLists    |-> {<<tOrders, tUsers>>},
   relevanceText |-> {relUsers},
   sqlText       |-> {sqlFenced, sqlTwoStatements},
   answerText    |-> {ansGrounded},
   resultSets    |-> {rowsNameCount},
   faults        |-> {"store", "tables", "columns", "relevance", "sqlgen", "answer", "query"}]

\* the questions and result sets that decide the chart
ChartLoad ==
  [clients       |-> {1},
   keys          |-> BOOLEAN,
   stores        |-> {<<Session("s1", <<priorTurn>>)>>},
   warm          |-> {FALSE},
   questions     |-> {qShowUsers, qBarChart, qChartUsers, qScatterUsers},
   sessionIds    |-> {"", "s1"},
   connectionIds |-> [c \in {1} |-> {"", "c1"}],
   tableLists    |-> {<<tOrders, tUsers>>},
   relevanceText |-> {relUsers},
   sqlText       |-> {sqlFenced},
   answerText    |-> {ansGrounded},
   resultSets    |-> {<<>>, rowsNameCount, rowsXY, rowsNoY},
   faults        |-> {"store", "tables", "columns", "relevance", "sqlgen", "answer", "query"}]

VARIABLES
  load,               \* the workload of the run (a record of the sets inputs are drawn from)
  AI_API_KEY,         \* config/database.js: whether OPENROUTER_API_KEY is set
  sessions,           \* the chat_sessions collection, in insertion order
  cachedMongoClient,  \* config/database.js: 0 (null) or the cached client
  mongoClients,       \* the number of MongoClient objects created so far
  cachedSqlPool,      \* config/database.js: whether the default pool exists
  req,                \* per request: the locals of handleAskRequest and what it has sent
  probe               \* a call outside handleAskRequest: the function, its arguments, its result

vars == <<load, AI_API_KEY, sessions, cachedMongoClient, mongoClients, cachedSqlPool, req, probe>>

NoCalls == [rel |-> 0, sql |-> 0, ans |-> 0]

\* a request that has not arrived yet
FreshRequest ==
  [pc                 |-> "idle",
   question           |-> <<>>,
   session_id         |-> "",
   connection_id      |-> "",
   currentSessionId   |-> "",
   chatHistory        |-> <<>>,
   client             |-> 0,
   dbPool             |-> FALSE,
   sqlPool            |-> "none",
   poolEnds           |-> 0,
   allTables          |-> <<>>,
   relevantTableNames |-> <<>>,
   selected           |-> FALSE,
   relevantTables     |-> <<>>,
   generatedSQL       |-> <<>>,
   reused             |-> FALSE,
   validation         |-> [valid |-> TRUE, error |-> ""],
   sqlQuery           |-> <<>>,
   executed           |-> <<>>,
   sent               |-> <<>>,
   results            |-> <<>>,
   chartData          |-> NoChart,
   naturalAnswer      |-> <<>>,
   messageSaved       |-> "unset",
   responses          |-> <<>>,
   sendAttempts       |-> 0,
   escaped            |-> FALSE,
   llmCalls           |-> NoCalls,
   context            |-> [rel |-> <<>>, sql |-> <<>>, ans |-> <<>>],
   llmFailed          |-> {},
   turnsBefore        |-> <<>>,
   log                |-> <<>>]

\* no pure function has been called
NoProbe == [fn |-> "none"]

InitWith(l) ==
  /\ load = l
  /\ AI_API_KEY \in l.keys
  /\ sessions \in l.stores
  /\ \E warm \in l.warm :
       \* server.js: a local start connects both stores before listening;
       \* the Lambda handler connects on first use
       /\ cachedMongoClient = (IF warm THEN 1 ELSE 0)
       /\ mongoClients = (IF warm THEN 1 ELSE 0)
       /\ cachedSqlPool = warm
  /\ req = [r \in Reqs |-> FreshRequest]
  /\ probe = NoProbe

Init == InitWith(FullLoad)

InitConcurrent == InitWith(ConcurrentLoad)

InitFair == InitWith(FairLoad)

InitChart == InitWith(ChartLoad)

InitHistory == InitWith(HistoryLoad)

InitExecute == InitWith(ExecuteLoad)

(***************************************************************************)
(* Helpers of the handler                                                  *)
(***************************************************************************)

\* uuidv4(): an id no other request has
generateSessionId(r) == IF r = 1 THEN "uuid1" ELSE "uuid2"

StageEvent(stage, ev, table) == [stage |-> stage, ev |-> ev, table |-> table]

begin(rq, stage) == [rq EXCEPT !.log = Append(@, StageEvent(stage, "begin", <<>>))]

end(rq, stage) == [rq EXCEPT !.log = Append(@, StageEvent(stage, "end", <<>>))]

ErrorResponse(status, error) ==
  [status |-> status, error |-> error, answer |-> <<>>, sql |-> <<>>, results |-> <<>>,
   tables_used |-> <<>>, session_id |-> "", chart_data |-> NoChart]

\* res.status(..).json(..): Express sends one response; a second json() throws
\* ERR_HTTP_HEADERS_SENT, here out of the handler's last catch block
send(rq, response) ==
  IF rq.sendAttempts = 0
  THEN [end(begin(rq, "respond"), "respond") EXCEPT
          !.responses = Append(@, response), !.sendAttempts = 1]
  ELSE [rq EXCEPT !.sendAttempts = @ + 1, !.escaped = TRUE]

\* return res.status(..).json(..)
fail(rq, status, error) == [send(rq, ErrorResponse(status, error)) EXCEPT !.pc = "done"]

\* await dbPool.end()
poolEnd(rq) == [rq EXCEPT !.poolEnds = @ + 1]

\* pg: Pool.end() on a pool that was ended rejects ('Called end on pool more than once')
endRejects(rq) == rq.poolEnds >= 1

\* if (dbPool) await dbPool.end()
releasePool(rq) == IF rq.dbPool THEN poolEnd(rq) ELSE rq

\* the position in the collection of the document findOne / updateOne selects
FindSession(id) ==
  LET hits == {i \in 1..Len(sessions) : sessions[i].session_id = id}
  IN  IF hits = {} THEN 0 ELSE Min(hits)

\* an LLM call that throws (axios rejects, or the reply has no choices[0])
failedCall(rq, kind) == [rq EXCEPT !.llmFailed = @ \cup {kind}]

\* chatHistory.slice(-2): the turns a prompt is built from
recentHistory(chatHistory) == sliceLast(chatHistory, 2)

\* an LLM call of one of the three components: its prompt is built, the call is issued
countCall(rq, kind) ==
  [rq EXCEPT !.llmCalls[kind] = IF @ < MaxLLMCalls THEN @ + 1 ELSE MaxLLMCalls,
             !.context[kind] = recentHistory(rq.chatHistory)]

\* Step 1 is over (createSessionIfNotExists returned true or false): Step 2
afterSession(rq) == [begin(end(rq, "session"), "context") EXCEPT !.pc = "ctx_client"]

\* Step 2 is over: Step 3, through the stored connection or the default pool
afterContext(rq, history) ==
  [begin(end(rq, "context"), "tables") EXCEPT
     !.chatHistory = history,
     !.pc = IF rq.connection_id # "" THEN "conn_client" ELSE "tables"]

\* a handler that answers 500 when the turn was not saved
afterPersistOrFail(rq, saved) ==
  IF saved THEN [end(rq, "persist") EXCEPT !.messageSaved = "yes", !.pc = "respond"]
  ELSE fail([end(rq, "persist") EXCEPT !.messageSaved = "no"], 500, "Failed to save message")

\* Step 10 is over (addMessageToSession returned saved): Step 11
afterPersist(rq, saved) ==
  [end(rq, "persist") EXCEPT !.messageSaved = IF saved THEN "yes" ELSE "no", !.pc = "respond"]

\* catch (err) of Step 3
failTables(rq) == fail(end(releasePool(rq), "tables"), 500, "Failed to get tables")

ClientPcs == {"cs_client", "ctx_client", "conn_client", "add_client"}

ConnectPcs == {"cs_connect", "ctx_connect", "conn_connect", "add_connect"}

SiteOf(pc) ==
  IF pc \in {"cs_client", "cs_connect", "cs_find", "cs_insert"} THEN "cs"
  ELSE IF pc \in {"ctx_client", "ctx_connect", "ctx_find"} THEN "ctx"
  ELSE IF pc \in {"conn_client", "conn_connect", "conn_find"} THEN "conn"
  ELSE "add"

ConnectPc(site) ==
  CASE site = "cs" -> "cs_connect" [] site = "ctx" -> "ctx_connect"
    [] site = "conn" -> "conn_connect" [] site = "add" -> "add_connect"

OpPc(site) ==
  CASE site = "cs" -> "cs_find" [] site = "ctx" -> "ctx_find"
    [] site = "conn" -> "conn_find" [] site = "add" -> "add_update"

\* a document-store call threw: what the catch block of the calling service does
mongoThrow(rq) ==
  CASE SiteOf(rq.pc) = "cs"   -> afterSession(rq)             \* createSessionIfNotExists: false
    [] SiteOf(rq.pc) = "ctx"  -> afterContext(rq, <<>>)       \* getConversationContext: []
    [] SiteOf(rq.pc) = "conn" -> failTables(rq)               \* getDatabaseConnection rethrows
    [] SiteOf(rq.pc) = "add"  -> afterPersist(rq, FALSE)      \* addMessageToSession: false

Update(r, rq) == req' = [req EXCEPT ![r] = rq]

\* whether the run's environment can make a call of this kind fail
Fault(kind) == kind \in load.faults

(***************************************************************************)
(* handleAskRequest, Steps 1 to 3: session, context, connection, tables    *)
(***************************************************************************)

\* the request arrives: the question check, then createSessionIfNotExists is called
Start(r) ==
  /\ req[r].pc = "idle"
  /\ r \in load.clients
  /\ \E q \in load.questions, s \in load.sessionIds, c \in load.connectionIds[r] :
       LET rq == [req[r] EXCEPT !.question = q, !.session_id = s, !.connection_id = c]
       IN  Update(r, IF Len(q) = 0 THEN fail(rq, 400, "Missing question")
                     ELSE [begin(rq, "session") EXCEPT
                             !.currentSessionId = IF s = "" THEN generateSessionId(r) ELSE s,
                             \* kept for the properties: the turn list the request found
                             !.turnsBefore = IF FindSession(s) = 0 THEN <<>>
                                             ELSE sessions[FindSession(s)].messages,
                             !.pc = "cs_client"])
  /\ UNCHANGED <<load, probe, AI_API_KEY, sessions, cachedMongoClient, mongoClients, cachedSqlPool>>

\* getMongoClient up to its await: the cached client, or a new MongoClient
getMongoClient(r) ==
  /\ req[r].pc \in ClientPcs
  /\ IF cachedMongoClient # 0
     THEN /\ Update(r, [req[r] EXCEPT !.client = cachedMongoClient,
                                      !.pc = OpPc(SiteOf(req[r].pc))])
          /\ UNCHANGED mongoClients
     ELSE /\ mongoClients' = mongoClients + 1
          /\ Update(r, [req[r] EXCEPT !.client = mongoClients + 1,
                                      !.pc = ConnectPc(SiteOf(req[r].pc))])
  /\ UNCHANGED <<load, probe, AI_API_KEY, sessions, cachedMongoClient, cachedSqlPool>>

\* getMongoClient after await client.connect(): the client is cached, or the error thrown
mongoConnect(r) ==
  /\ req[r].pc \in ConnectPcs
  /\ \/ /\ cachedMongoClient' = req[r].client
        /\ Update(r, [req[r] EXCEPT !.pc = OpPc(SiteOf(req[r].pc))])
     \/ /\ Fault("store")
        /\ Update(r, mongoThrow(req[r]))
        /\ UNCHANGED cachedMongoClient
  /\ UNCHANGED <<load, probe, AI_API_KEY, sessions, mongoClients, cachedSqlPool>>

\* createSessionIfNotExists: findOne({ session_id })
createSessionFind(r) ==
  /\ req[r].pc = "cs_find"
  /\ \/ Update(r, IF FindSession(req[r].currentSessionId) # 0 THEN afterSession(req[r])
                  ELSE [req[r] EXCEPT !.pc = "cs_insert"])
     \/ Fault("store") /\ Update(r, mongoThrow(req[r]))
  /\ UNCHANGED <<load, probe, AI_API_KEY, sessions, cachedMongoClient, mongoClients, cachedSqlPool>>

\* createSessionIfNotExists: insertOne(newSession)
createSessionInsert(r) ==
  /\ req[r].pc = "cs_insert"
  /\ \/ /\ sessions' = Append(sessions, Session(req[r].currentSessionId, <<>>))
        /\ Update(r, afterSession(req[r]))
     \/ /\ Fault("store")
        /\ Update(r, mongoThrow(req[r]))
        /\ UNCHANGED sessions
  /\ UNCHANGED <<load, probe, AI_API_KEY, cachedMongoClient, mongoClients, cachedSqlPool>>

\* getConversationContext(currentSessionId, 6): findOne, then messages.slice(-limit)
\* a read of the whole stored history
getConversationContextUnbounded(r) ==
  /\ req[r].pc = "ctx_find"
  /\ LET at == FindSession(req[r].currentSessionId)
     IN  Update(r, afterContext(req[r], IF at = 0 THEN <<>> ELSE sessions[at].messages))
  /\ UNCHANGED <<load, probe, AI_API_KEY, sessions, cachedMongoClient, mongoClients, cachedSqlPool>>

getConversationContext(r) ==
  /\ req[r].pc = "ctx_find"
  /\ LET at == FindSession(req[r].currentSessionId)
     IN  \/ Update(r, afterContext(req[r],
                        IF at = 0 THEN <<>>
                        ELSE sliceLast(sessions[at].messages, HistoryLimit)))
         \/ Fault("store") /\ Update(r, mongoThrow(req[r]))
  /\ UNCHANGED <<load, probe, AI_API_KEY, sessions, cachedMongoClient, mongoClients, cachedSqlPool>>

\* getDatabaseConnection(connection_id), then new Pool({ ..., max: 1 })
getDatabaseConnection(r) ==
  /\ req[r].pc = "conn_find"
  /\ \/ /\ req[r].connection_id = "c1"
        /\ Update(r, [req[r] EXCEPT !.dbPool = TRUE, !.pc = "tables"])
     \/ /\ req[r].connection_id = "c0"
        /\ Update(r, fail(end(req[r], "tables"), 400, "Invalid connection"))
     \/ \* new ObjectId(connectionId) throws on a malformed id, or findOne throws
        /\ req[r].connection_id = "bad" \/ Fault("store")
        /\ Update(r, mongoThrow(req[r]))
  /\ UNCHANGED <<load, probe, AI_API_KEY, sessions, cachedMongoClient, mongoClients, cachedSqlPool>>

\* the table listing, on the request's pool or through getAllTables() on the default pool
listTables(r) ==
  /\ req[r].pc = "tables"
  /\ LET rq == [req[r] EXCEPT !.sqlPool = IF req[r].dbPool THEN "own" ELSE "default"]
     IN  \/ \E tables \in load.tableLists :
              Update(r, [begin(end(rq, "tables"), "relevance") EXCEPT
                           !.allTables = tables, !.pc = "relevance"])
         \/ Fault("tables") /\ Update(r, failTables(rq))
  /\ cachedSqlPool' = (cachedSqlPool \/ ~req[r].dbPool)
  /\ UNCHANGED <<load, probe, AI_API_KEY, sessions, cachedMongoClient, mongoClients>>

(***************************************************************************)
(* Step 4: askAIForRelevantTables                                          *)
(***************************************************************************)

\* a handler without the check of the names
noRelevantTablesUnchecked(relevantTableNames) == FALSE

\* !relevantTableNames || relevantTableNames.length === 0
noRelevantTables(relevantTableNames) == Len(relevantTableNames) = 0

\* askAIForRelevantTables returned names: the check of the handler, then Step 5
selectedTables(rq, names) ==
  LET a == [end(rq, "relevance") EXCEPT !.relevantTableNames = names, !.selected = TRUE]
  IN  IF noRelevantTables(names) THEN fail(a, 400, "No relevant tables found")
      ELSE [a EXCEPT !.pc = "columns"]

\* if (!AI_API_KEY): keyword matching
relevantTablesFallback(r) ==
  /\ req[r].pc = "relevance"
  /\ ~AI_API_KEY
  /\ Update(r, selectedTables(req[r],
                 keywordFallback(req[r].question, req[r].allTables, req[r].chatHistory)))
  /\ UNCHANGED <<load, probe, AI_API_KEY, sessions, cachedMongoClient, mongoClients, cachedSqlPool>>

\* AI_API_KEY is set: the prompt is built and axios.post is awaited
relevantTablesCall(r) ==
  /\ req[r].pc = "relevance"
  /\ AI_API_KEY
  /\ Update(r, [countCall(req[r], "rel") EXCEPT !.pc = "relevance_wait"])
  /\ UNCHANGED <<load, probe, AI_API_KEY, sessions, cachedMongoClient, mongoClients, cachedSqlPool>>

\* the LLM call answers: the names of its text that are in allTables
relevantTablesLLM(r) ==
  /\ req[r].pc = "relevance_wait"
  /\ \E text \in load.relevanceText :
       Update(r, selectedTables(req[r], parseRelevantTables(text, req[r].allTables)))
  /\ UNCHANGED <<load, probe, AI_API_KEY, sessions, cachedMongoClient, mongoClients, cachedSqlPool>>

\* the LLM call fails: catch (error) { return askAIForRelevantTables(question, allTables,
\* chatHistory) }, and the function is entered again from its first line
relevantTablesLLMFailed(r) ==
  /\ req[r].pc = "relevance_wait"
  /\ Fault("relevance")
  /\ Update(r, [req[r] EXCEPT !.pc = "relevance"])
  /\ UNCHANGED <<load, probe, AI_API_KEY, sessions, cachedMongoClient, mongoClients, cachedSqlPool>>

(***************************************************************************)
(* Step 5: the columns of each relevant table, one table per query         *)
(***************************************************************************)

fetchColumns(r) ==
  /\ req[r].pc = "columns"
  /\ LET tableName == req[r].relevantTableNames[Len(req[r].relevantTables) + 1]
         last      == Len(req[r].relevantTables) + 1 = Len(req[r].relevantTableNames)
         logged    == [req[r] EXCEPT !.log = @ \o <<StageEvent("columns", "begin", tableName),
                                                     StageEvent("columns", "end", tableName)>>]
     IN  \/ Update(r, [logged EXCEPT
                         !.relevantTables =
                            Append(@, [name |-> tableName, columns |-> ColumnsOf(tableName)]),
                         !.pc = IF last THEN "sqlgen" ELSE "columns"])
         \/ Fault("columns") /\
            Update(r, fail(releasePool(logged), 500, "Failed to get table columns"))
  /\ UNCHANGED <<load, probe, AI_API_KEY, sessions, cachedMongoClient, mongoClients, cachedSqlPool>>

(***************************************************************************)
(* Steps 6 and 7: the SQL, its validation and its execution                *)
(***************************************************************************)

\* askAIForSQL returned sql, or the previous query was taken: on to the validation
generatedSQL(rq, sql, reused) ==
  [end(begin(rq, "sqlgen"), "sqlgen") EXCEPT
     !.generatedSQL = sql, !.sqlQuery = sql, !.reused = reused, !.pc = "validate"]

\* isVisualizationRequest && hasPreviousResults: the previous query, with ORDER BY
reusePrevious(r) ==
  /\ req[r].pc = "sqlgen"
  /\ isVisualizationRequest(req[r].question)
  /\ hasPreviousResults(req[r].chatHistory)
  /\ Update(r, generatedSQL(req[r],
                 reusePreviousQuery(req[r].chatHistory[Len(req[r].chatHistory)].sql_query),
                 TRUE))
  /\ UNCHANGED <<load, probe, AI_API_KEY, sessions, cachedMongoClient, mongoClients, cachedSqlPool>>

\* an askAIForSQL that calls the LLM without a key
askAIForSQLKeyless(r) ==
  /\ req[r].pc = "sqlgen"
  /\ ~(isVisualizationRequest(req[r].question) /\ hasPreviousResults(req[r].chatHistory))
  /\ ~AI_API_KEY
  /\ \E text \in load.sqlText :
       Update(r, generatedSQL(countCall(req[r], "sql"), cleanSQLResponse(trim(text)), FALSE))
  /\ UNCHANGED <<load, probe, AI_API_KEY, sessions, cachedMongoClient, mongoClients, cachedSqlPool>>

\* askAIForSQL, if (!AI_API_KEY): the simple SELECT
askAIForSQLFallback(r) ==
  /\ req[r].pc = "sqlgen"
  /\ ~(isVisualizationRequest(req[r].question) /\ hasPreviousResults(req[r].chatHistory))
  /\ ~AI_API_KEY
  /\ Update(r, generatedSQL(req[r], simpleSelectFallback(req[r].relevantTables), FALSE))
  /\ UNCHANGED <<load, probe, AI_API_KEY, sessions, cachedMongoClient, mongoClients, cachedSqlPool>>

\* askAIForSQL with a key: one LLM call; its text cleaned, or on failure the simple SELECT
\* an askAIForSQL that lets the failure of its LLM call reach the handler
askAIForSQLThrowing(r) ==
  /\ req[r].pc = "sqlgen"
  /\ ~(isVisualizationRequest(req[r].question) /\ hasPreviousResults(req[r].chatHistory))
  /\ AI_API_KEY
  /\ \/ \E text \in load.sqlText :
          Update(r, generatedSQL(countCall(req[r], "sql"),
                                 cleanSQLResponse(trim(text)), FALSE))
     \/ Fault("sqlgen") /\
        Update(r, fail(failedCall(countCall(req[r], "sql"), "sql"), 500,
                       "Failed to generate SQL"))
  /\ UNCHANGED <<load, probe, AI_API_KEY, sessions, cachedMongoClient, mongoClients, cachedSqlPool>>

askAIForSQLLLM(r) ==
  /\ req[r].pc = "sqlgen"
  /\ ~(isVisualizationRequest(req[r].question) /\ hasPreviousResults(req[r].chatHistory))
  /\ AI_API_KEY
  /\ \/ \E text \in load.sqlText :
          Update(r, generatedSQL(countCall(req[r], "sql"),
                                 cleanSQLResponse(trim(text)), FALSE))
     \/ Fault("sqlgen") /\
        Update(r, generatedSQL(failedCall(countCall(req[r], "sql"), "sql"),
                               simpleSelectFallback(req[r].relevantTables), FALSE))
  /\ UNCHANGED <<load, probe, AI_API_KEY, sessions, cachedMongoClient, mongoClients, cachedSqlPool>>

\* a handler that keeps the generated SQL whatever the validation says
sqlAsGenerated(sqlQuery, relevantTables, question) == sqlQuery

\* if (!validation.valid) sqlQuery = generateFallbackSQL(relevantTables, question)
sqlToExecute(sqlQuery, relevantTables, question) ==
  IF validateSQL(sqlQuery).valid THEN sqlQuery
  ELSE generateFallbackSQL(relevantTables, question)

validate(r) ==
  /\ req[r].pc = "validate"
  /\ Update(r, [end(begin(req[r], "validate"), "validate") EXCEPT
                  !.validation = validateSQL(req[r].sqlQuery),
                  !.sqlQuery = sqlToExecute(req[r].sqlQuery, req[r].relevantTables,
                                            req[r].question),
                  !.pc = "execute"])
  /\ UNCHANGED <<load, probe, AI_API_KEY, sessions, cachedMongoClient, mongoClients, cachedSqlPool>>

\* the query returns rows; finally { if (dbPool) await dbPool.end() }
\* sqlQuery.split(';').map(s => s.trim()).filter(Boolean)[0]; the validated
\* text holds SELECT, so there is a first statement
firstStatement(sqlQuery) ==
  LET parts == TrimEach(split(sqlQuery, ";"))
      kept  == FilterSeq(parts, {s \in Range(parts) : Len(s) > 0})
  IN  IF Len(kept) = 0 THEN <<>> ELSE kept[1]

\* the text given to query(): dbPool.query(sqlQuery) on the request's own
\* pool, sql.query(sqlStatements[0]) in executeSQLQuery on the default pool
sentText(rq) == IF rq.dbPool THEN rq.sqlQuery ELSE firstStatement(rq.sqlQuery)

executeSQL(r) ==
  /\ req[r].pc = "execute"
  /\ \E rows \in load.resultSets :
       Update(r, [releasePool(end(begin(req[r], "execute"), "execute")) EXCEPT
                    !.executed = req[r].sqlQuery, !.sent = sentText(req[r]),
                    !.results = rows, !.pc = "chart"])
  /\ UNCHANGED <<load, probe, AI_API_KEY, sessions, cachedMongoClient, mongoClients, cachedSqlPool>>

\* the query throws: catch { if (dbPool) await dbPool.end(); return res.status(500).json() },
\* then finally { if (dbPool) await dbPool.end() }; an end() that rejects there is thrown
\* to the catch of the whole handler, which calls res.status(500).json() again
executeSQLFailed(r) ==
  /\ req[r].pc = "execute"
  /\ Fault("query")
  /\ LET tried   == [end(begin(req[r], "execute"), "execute") EXCEPT
                      !.executed = req[r].sqlQuery, !.sent = sentText(req[r])]
         caught  == fail(releasePool(tried), 500, "Failed to execute SQL query")
         finally == releasePool(caught)
     IN  Update(r, IF caught.dbPool /\ endRejects(caught)
                   THEN fail(finally, 500, "Called end on pool more than once")
                   ELSE finally)
  /\ UNCHANGED <<load, probe, AI_API_KEY, sessions, cachedMongoClient, mongoClients, cachedSqlPool>>

(***************************************************************************)
(* Steps 8 to 11: chart, answer, persistence, response                     *)
(***************************************************************************)

\* a handler that appends the turn right after the chart, without an answer
inferChartThenPersist(r) ==
  /\ req[r].pc = "chart"
  /\ Update(r, [end(begin(req[r], "chart"), "chart") EXCEPT !.pc = "add_client"])
  /\ UNCHANGED <<load, probe, AI_API_KEY, sessions, cachedMongoClient, mongoClients, cachedSqlPool>>


inferChart(r) ==
  /\ req[r].pc = "chart"
  /\ LET chartRequest == detectChartRequest(req[r].question)
     IN  Update(r, [end(begin(req[r], "chart"), "chart") EXCEPT
                      !.chartData = IF chartRequest.requested /\ Len(req[r].results) > 0
                                    THEN generateChartData(req[r].results, chartRequest.type)
                                    ELSE NoChart,
                      !.pc = "answer"])
  /\ UNCHANGED <<load, probe, AI_API_KEY, sessions, cachedMongoClient, mongoClients, cachedSqlPool>>

\* generateNaturalLanguageAnswer returned answer: Step 10, addMessageToSession is called
answered(rq, answer) ==
  [begin(end(begin(rq, "answer"), "answer"), "persist") EXCEPT
     !.naturalAnswer = answer, !.pc = "add_client"]

\* generateNaturalLanguageAnswer, if (!AI_API_KEY)
answerFallback(r) ==
  /\ req[r].pc = "answer"
  /\ ~AI_API_KEY
  /\ Update(r, answered(req[r], foundResultsAnswer(req[r].results)))
  /\ UNCHANGED <<load, probe, AI_API_KEY, sessions, cachedMongoClient, mongoClients, cachedSqlPool>>

\* generateNaturalLanguageAnswer with a key: one LLM call; its text after the check
\* against the result values, or on failure the count of the results
answerLLM(r) ==
  /\ req[r].pc = "answer"
  /\ AI_API_KEY
  /\ \/ \E text \in load.answerText :
          Update(r, answered(countCall(req[r], "ans"), groundedAnswer(text, req[r].results)))
     \/ Fault("answer") /\
        Update(r, answered(failedCall(countCall(req[r], "ans"), "ans"),
                           foundResultsAnswer(req[r].results)))
  /\ UNCHANGED <<load, probe, AI_API_KEY, sessions, cachedMongoClient, mongoClients, cachedSqlPool>>

\* the message addMessageToSession builds from messageData
Turn(rq) ==
  [question             |-> rq.question,
   sql_query            |-> rq.sqlQuery,
   tables_used          |-> rq.relevantTableNames,
   result_count         |-> Len(rq.results),
   result_sample        |-> sliceFirst(rq.results, 5),
   natural_answer       |-> rq.naturalAnswer,
   is_followup_question |-> Len(rq.chatHistory) > 0,
   chart_data           |-> rq.chartData]

\* an append that writes back the history the request read, with its turn added
addMessageOverwriting(r) ==
  /\ req[r].pc = "add_update"
  /\ LET at == FindSession(req[r].currentSessionId)
     IN  /\ at # 0
         /\ sessions' = [sessions EXCEPT
                           ![at].messages = Append(req[r].chatHistory, Turn(req[r]))]
         /\ Update(r, afterPersist(req[r], TRUE))
  /\ UNCHANGED <<load, probe, AI_API_KEY, cachedMongoClient, mongoClients, cachedSqlPool>>

\* addMessageToSession: updateOne({ session_id }, { $push: { messages: message }, ... })
\* and return result.modifiedCount > 0; an error is caught and false returned
addMessageToSession(r) ==
  /\ req[r].pc = "add_update"
  /\ LET at == FindSession(req[r].currentSessionId)
     IN  \/ /\ at # 0
            /\ sessions' = [sessions EXCEPT ![at].messages = Append(@, Turn(req[r]))]
            /\ Update(r, afterPersist(req[r], TRUE))
         \/ /\ at = 0
            /\ UNCHANGED sessions
            /\ Update(r, afterPersist(req[r], FALSE))
         \/ /\ Fault("store")
            /\ UNCHANGED sessions
            /\ Update(r, mongoThrow(req[r]))
  /\ UNCHANGED <<load, probe, AI_API_KEY, cachedMongoClient, mongoClients, cachedSqlPool>>

\* Step 11: res.json(response)
SuccessResponse(rq) ==
  [status |-> 200, error |-> "", answer |-> rq.naturalAnswer, sql |-> rq.sqlQuery,
   results |-> sliceFirst(rq.results, 5), tables_used |-> rq.relevantTableNames,
   session_id |-> rq.currentSessionId, chart_data |-> rq.chartData]

\* a response step that fails after the turn was appended
respondFailing(r) ==
  /\ req[r].pc = "respond"
  /\ Update(r, fail(req[r], 500, "Failed to send"))
  /\ UNCHANGED <<load, probe, AI_API_KEY, sessions, cachedMongoClient, mongoClients, cachedSqlPool>>

respond(r) ==
  /\ req[r].pc = "respond"
  /\ Update(r, [send(req[r], SuccessResponse(req[r])) EXCEPT !.pc = "done"])
  /\ UNCHANGED <<load, probe, AI_API_KEY, sessions, cachedMongoClient, mongoClients, cachedSqlPool>>

(***************************************************************************)
(* Specifications                                                          *)
(***************************************************************************)

Step(r) ==
  \/ Start(r)
  \/ getMongoClient(r)
  \/ mongoConnect(r)
  \/ createSessionFind(r)
  \/ createSessionInsert(r)
  \/ getConversationContext(r)
  \/ getDatabaseConnection(r)
  \/ listTables(r)
  \/ relevantTablesFallback(r)
  \/ relevantTablesCall(r)
  \/ relevantTablesLLM(r)
  \/ relevantTablesLLMFailed(r)
  \/ fetchColumns(r)
  \/ reusePrevious(r)
  \/ askAIForSQLFallback(r)
  \/ askAIForSQLLLM(r)
  \/ validate(r)
  \/ executeSQL(r)
  \/ executeSQLFailed(r)
  \/ inferChart(r)
  \/ answerFallback(r)
  \/ answerLLM(r)
  \/ addMessageToSession(r)
  \/ respond(r)

Next == \E r \in Reqs : Step(r)

\* the runs of one request
Spec == Init /\ [][Next]_vars

\* the runs of one request over the questions and result sets that decide the chart
ChartSpec == InitChart /\ [][Next]_vars

\* the runs of one request on a session of seven stored turns
HistorySpec == InitHistory /\ [][Next]_vars

\* the runs of one request whose generated SQL may hold two statements
ExecuteSpec == InitExecute /\ [][Next]_vars

\* the runs of two concurrent requests
ConcurrentSpec == InitConcurrent /\ [][Next]_vars

\* Every await of a request resolves or rejects in the end: a request that
\* can take a step takes one.
Fairness == \A r \in Reqs : WF_vars(Step(r))

FairSpec == InitFair /\ [][Next]_vars /\ Fairness

(***************************************************************************)
(* The other operations on a session                                       *)
(***************************************************************************)

\* getMongoClient as the session services call it: the cached client, or a new
\* one that is connected and cached
sessionMongoClient ==
  IF cachedMongoClient # 0
  THEN UNCHANGED <<cachedMongoClient, mongoClients>>
  ELSE /\ mongoClients' = mongoClients + 1
       /\ cachedMongoClient' = mongoClients + 1

\* the reply of an endpoint outside /ask
Reply(fn, id, status) == [fn |-> fn, session_id |-> id, status |-> status]

\* resetSessionHistory: updateOne({ session_id }, { $set: { messages: [], ... } });
\* true when a document was modified, false when none matched or the store threw
resetSessionHistory(fn, sessionId) ==
  \/ /\ sessionMongoClient
     /\ LET at == FindSession(sessionId)
        IN  IF at # 0
            THEN /\ sessions' = [sessions EXCEPT ![at].messages = <<>>]
                 /\ probe' = Reply(fn, sessionId, 200)
            ELSE /\ probe' = Reply(fn, sessionId, 500)
                 /\ UNCHANGED sessions
  \/ /\ Fault("store")
     /\ probe' = Reply(fn, sessionId, 500)
     /\ UNCHANGED <<sessions, cachedMongoClient, mongoClients>>

\* POST /reset-session-history
resetSessionHistoryEndpoint(session_id) ==
  /\ IF session_id = ""
     THEN /\ probe' = Reply("resetSessionHistoryEndpoint", session_id, 400)
          /\ UNCHANGED <<sessions, cachedMongoClient, mongoClients>>
     ELSE resetSessionHistory("resetSessionHistoryEndpoint", session_id)
  /\ UNCHANGED <<load, AI_API_KEY, cachedSqlPool, req>>

\* DELETE /chat-history
clearChatHistory(session_id) ==
  /\ IF session_id = ""
     THEN /\ probe' = Reply("clearChatHistory", session_id, 400)
          /\ UNCHANGED <<sessions, cachedMongoClient, mongoClients>>
     ELSE resetSessionHistory("clearChatHistory", session_id)
  /\ UNCHANGED <<load, AI_API_KEY, cachedSqlPool, req>>

\* POST /sessions/:session_id/restore: reads the session, returns its turns and
\* sets last_activity and status; the turn list is not written
restoreSession(session_id) ==
  /\ session_id # ""
  /\ \/ /\ sessionMongoClient
        /\ probe' = Reply("restoreSession", session_id,
                          IF FindSession(session_id) # 0 THEN 200 ELSE 404)
     \/ /\ Fault("store")
        /\ probe' = Reply("restoreSession", session_id, 404)
        /\ UNCHANGED <<cachedMongoClient, mongoClients>>
  /\ UNCHANGED <<load, AI_API_KEY, sessions, cachedSqlPool, req>>

\* the session ids a client may send: the ones of the load and the generated one
SessionIds == load.sessionIds \cup {s.session_id : s \in Range(sessions)}

SessionNext ==
  \/ Next
  \/ \E id \in SessionIds : resetSessionHistoryEndpoint(id)
  \/ \E id \in SessionIds : clearChatHistory(id)
  \/ \E id \in SessionIds : restoreSession(id)

\* the runs of a request with the session endpoints called at any moment
SessionSpec == InitFair /\ [][SessionNext]_vars

(***************************************************************************)
(* Calls of the pure functions                                             *)
(***************************************************************************)

\* the pieces the texts given to cleanSQLResponse and validateSQL are made of
SqlFragments ==
  {kSELECT, <<";">>, <<"'">>, <<"\"">>, <<" ">>, <<"x">>, kFence, <<Backquote>>,
   <<"'", "x", "'">>, Quoted(<<"a">>)}

MaxFragments == 3

RECURSIVE TextsOf(_)
\* the texts of at most n fragments
TextsOf(n) ==
  IF n = 0 THEN {<<>>}
  ELSE LET shorter == TextsOf(n - 1)
       IN  shorter \cup {s \o f : s \in shorter, f \in SqlFragments}

Texts == TextsOf(MaxFragments)

\* a call that has not returned yet
Called(fn, args) == [fn |-> fn, args |-> args, returned |-> FALSE, result |-> <<>>]

\* result rows of one column; only the last row's value occurs in ansLastRow
rowsFour ==
  [i \in 1..4 |-> <<Entry(<<"n","a","m","e">>,
                      StrVal(<<<<"a","n","n">>, <<"b","o","b">>, <<"c","y","d">>, <<"d","a","n">>>>[i]))>>]

ansLastRow == <<"d","a","n"," ","i","s"," ","l","a","s","t">>

tUserRoles == <<"u","s","e","r","_","r","o","l","e","s">>

qUserOrders == <<"u","s","e","r"," ","o","r","d","e","r","s">>

qTwoSpaces == <<"h","i"," "," ","y","o","u">>

\* a stored turn over three tables
widerTurn == [priorTurn EXCEPT !.tables_used = <<tUserRoles, tOrders, tUsers>>]

PureCalls ==
  {Called("cleanSQLResponse", <<T>>) : T \in Texts}
    \cup {Called("validateSQL", <<T>>) : T \in Texts \cup {Null}}
    \cup {Called("generateNaturalLanguageAnswer", <<aiResponse, results>>) :
            aiResponse \in {ansGrounded, ansGeneric, ansLastRow},
            results \in {<<>>, rowsNameCount, rowsFour}}
    \cup {Called("askAIForRelevantTables", <<question, allTables, chatHistory>>) :
            question \in {qShowUsers, qChartUsers, qHello, qUserOrders, qTwoSpaces},
            allTables \in {<<>>, <<tOrders, tUsers>>, <<tOrders, tUsers, tUserRoles>>},
            chatHistory \in {<<>>, <<priorTurn>>, <<priorTurn, widerTurn>>}}
    \cup {Called("askAIForRelevantTablesLLM", <<aiResponse, allTables>>) :
            aiResponse \in {relUsers, relOrdersAndUnknown, relUnknown},
            allTables \in {<<>>, <<tOrders, tUsers>>, <<tOrders, tUsers, tUserRoles>>}}

PureInit ==
  /\ load = FairLoad
  /\ AI_API_KEY = TRUE
  /\ sessions = <<>>
  /\ cachedMongoClient = 0
  /\ mongoClients = 0
  /\ cachedSqlPool = FALSE
  /\ req = [r \in Reqs |-> FreshRequest]
  /\ probe \in PureCalls

Return(result) ==
  /\ ~probe.returned
  /\ probe' = [probe EXCEPT !.returned = TRUE, !.result = result]
  /\ UNCHANGED <<load, AI_API_KEY, sessions, cachedMongoClient, mongoClients, cachedSqlPool, req>>

callCleanSQLResponse ==
  /\ probe.fn = "cleanSQLResponse"
  /\ Return(cleanSQLResponse(probe.args[1]))

callValidateSQL ==
  /\ probe.fn = "validateSQL"
  /\ Return(validateSQL(probe.args[1]))

\* generateNaturalLanguageAnswer with an LLM key, the LLM replying args[1]
callGenerateNaturalLanguageAnswer ==
  /\ probe.fn = "generateNaturalLanguageAnswer"
  /\ Return(groundedAnswer(probe.args[1], probe.args[2]))

\* askAIForRelevantTables without an LLM key
callAskAIForRelevantTables ==
  /\ probe.fn = "askAIForRelevantTables"
  /\ Return(keywordFallback(probe.args[1], probe.args[2], probe.args[3]))

\* askAIForRelevantTables with an LLM key, the LLM replying args[1]
callAskAIForRelevantTablesLLM ==
  /\ probe.fn = "askAIForRelevantTablesLLM"
  /\ Return(parseRelevantTables(probe.args[1], probe.args[2]))

PureNext ==
  \/ callCleanSQLResponse
  \/ callValidateSQL
  \/ callGenerateNaturalLanguageAnswer
  \/ callAskAIForRelevantTables
  \/ callAskAIForRelevantTablesLLM

\* one call of a pure function on one of the inputs
PureSpec == PureInit /\ [][PureNext]_vars

(***************************************************************************)
(* generateResponse, the embed path                                        *)
(***************************************************************************)

\* messages of the errors thrown inside generateResponse
msgSyntax == <<"s","y","n","t","a","x"," ","e","r","r","o","r"," ","a","t"," ","o","r"," ","n","e","a","r">>

msgTerminated == <<"C","o","n","n","e","c","t","i","o","n"," ","t","e","r","m","i","n","a","t","e","d">>

msgNoRelevantTables ==
  <<"N","o"," ","r","e","l","e","v","a","n","t"," ","t","a","b","l","e","s"," ","f","o","u","n","d",
    " ","f","o","r"," ","y","o","u","r"," ","q","u","e","s","t","i","o","n",".">>

\* error.message.includes('SQL') || ... || error.message.includes('unterminated quoted string')
isSQLError(message) ==
  \/ includes(message, <<"S","Q","L">>)
  \/ includes(message, <<"s","y","n","t","a","x">>)
  \/ includes(message, <<"m","i","s","s","i","n","g"," ","F","R","O","M","-","c","l","a","u","s","e">>)
  \/ includes(message, <<"u","n","t","e","r","m","i","n","a","t","e","d"," ","q","u","o","t","e","d"," ","s","t","r","i","n","g">>)

\* the value generateResponse has not returned yet
NoResult ==
  [success |-> FALSE, sql |-> <<>>, results |-> <<>>, tables_used |-> <<>>,
   answer |-> <<>>, chart_data |-> NoChart, error |-> <<>>]

EmbedCall(question) ==
  [fn |-> "generateResponse", pc |-> "pool", question |-> question, allTables |-> <<>>,
   relevantTableNames |-> <<>>, relevantTables |-> <<>>, sqlQuery |-> <<>>,
   results |-> <<>>, thrown |-> FALSE, error |-> <<>>, dbPool |-> FALSE, poolEnds |-> 0,
   queriesAfterEnd |-> 0, fallbackTried |-> FALSE, returned |-> FALSE, result |-> NoResult]

EmbedInit ==
  /\ load = FairLoad
  /\ AI_API_KEY \in BOOLEAN
  /\ sessions = <<>>
  /\ cachedMongoClient = 0
  /\ mongoClients = 0
  /\ cachedSqlPool = FALSE
  /\ req = [r \in Reqs |-> FreshRequest]
  /\ probe \in {EmbedCall(question) : question \in {qShowUsers, qChartUsers, qHello}}

Embed(p) ==
  /\ probe' = p
  /\ UNCHANGED <<load, AI_API_KEY, sessions, cachedMongoClient, mongoClients, cachedSqlPool, req>>

\* an exception inside the inner try block: the finally block runs, then the catch
embedThrow(p, message) == [p EXCEPT !.thrown = TRUE, !.error = message, !.pc = "finally"]

\* a query on the pool of the call
embedQuery(p) ==
  [p EXCEPT !.queriesAfterEnd = IF p.poolEnds > 0 THEN @ + 1 ELSE @]

\* const dbPool = new Pool({...})
embedCreatePool ==
  /\ probe.pc = "pool"
  /\ Embed([probe EXCEPT !.dbPool = TRUE, !.pc = "tables"])

embedListTables ==
  /\ probe.pc = "tables"
  /\ \/ \E tables \in {<<tOrders, tUsers>>, <<>>} :
          Embed([embedQuery(probe) EXCEPT !.allTables = tables, !.pc = "relevance"])
     \/ Embed(embedThrow(embedQuery(probe), msgTerminated))

\* askAIForRelevantTables(question, allTables, []): the parsed answer of the
\* model, or the keyword fallback without a key or after a failed call
embedRelevantTables ==
  /\ probe.pc = "relevance"
  /\ \E names \in IF AI_API_KEY
                  THEN {parseRelevantTables(text, probe.allTables) :
                          text \in {relUsers, relUnknown}}
                         \cup {keywordFallback(probe.question, probe.allTables, <<>>)}
                  ELSE {keywordFallback(probe.question, probe.allTables, <<>>)} :
       Embed(IF noRelevantTables(names) THEN embedThrow(probe, msgNoRelevantTables)
             ELSE [probe EXCEPT !.relevantTableNames = names, !.pc = "columns"])

embedColumns ==
  /\ probe.pc = "columns"
  /\ LET tableName == probe.relevantTableNames[Len(probe.relevantTables) + 1]
         last      == Len(probe.relevantTables) + 1 = Len(probe.relevantTableNames)
     IN  \/ Embed([embedQuery(probe) EXCEPT
                     !.relevantTables =
                        Append(@, [name |-> tableName, columns |-> ColumnsOf(tableName)]),
                     !.pc = IF last THEN "sqlgen" ELSE "columns"])
         \/ Embed(embedThrow(embedQuery(probe), msgTerminated))

\* askAIForSQL(question, relevantTables, [])
embedSQL ==
  /\ probe.pc = "sqlgen"
  /\ \E sql \in IF AI_API_KEY
                THEN {cleanSQLResponse(trim(text)) : text \in {sqlFenced, sqlUnterminated}}
                       \cup {simpleSelectFallback(probe.relevantTables)}
                ELSE {simpleSelectFallback(probe.relevantTables)} :
       Embed([probe EXCEPT !.sqlQuery = sql, !.pc = "execute"])

\* dbPool.query(sqlQuery): rows, a syntax error of the server, or a lost connection
embedExecute ==
  /\ probe.pc = "execute"
  /\ \/ \E rows \in {<<>>, rowsNameCount} :
          Embed([embedQuery(probe) EXCEPT !.results = rows, !.pc = "answer"])
     \/ \E message \in {msgSyntax, msgTerminated} :
          Embed(embedThrow(embedQuery(probe), message))

\* steps 7 and 8 and the return statement of the inner try block
embedAnswer ==
  /\ probe.pc = "answer"
  /\ LET chartRequest == detectChartRequest(probe.question)
         chartData == IF chartRequest.requested /\ Len(probe.results) > 0
                      THEN generateChartData(probe.results, chartRequest.type)
                      ELSE NoChart
     IN  \E answer \in IF AI_API_KEY
                       THEN {groundedAnswer(text, probe.results) : text \in {ansGrounded, ansGeneric}}
                              \cup {foundResultsAnswer(probe.results)}
                       ELSE {foundResultsAnswer(probe.results)} :
           Embed([probe EXCEPT
                    !.result = [success |-> TRUE, sql |-> probe.sqlQuery,
                                results |-> sliceFirst(probe.results, 10),
                                tables_used |-> probe.relevantTableNames,
                                answer |-> answer, chart_data |-> chartData, error |-> <<>>],
                    !.pc = "finally"])

\* finally { await dbPool.end() }
embedFinally ==
  /\ probe.pc = "finally"
  /\ Embed([probe EXCEPT !.poolEnds = @ + 1,
                         !.returned = ~probe.thrown,
                         !.pc = IF probe.thrown THEN "catch" ELSE "done"])

\* the catch block. dbPool is a const of the try block and no binding of the
\* catch block: the fallback's dbPool.query throws a ReferenceError before any
\* query is made, the inner catch logs it, and the failure object is returned.
embedCatch ==
  /\ probe.pc = "catch"
  /\ Embed([probe EXCEPT
              !.fallbackTried = isSQLError(probe.error),
              !.result = [NoResult EXCEPT !.error = probe.error],
              !.returned = TRUE,
              !.pc = "done"])

EmbedNext ==
  \/ embedCreatePool
  \/ embedListTables
  \/ embedRelevantTables
  \/ embedColumns
  \/ embedSQL
  \/ embedExecute
  \/ embedAnswer
  \/ embedFinally
  \/ embedCatch

\* one call of generateResponse
EmbedSpec == EmbedInit /\ [][EmbedNext]_vars

(***************************************************************************)
(* Properties of handleAskRequest                                          *)
(***************************************************************************)

Done(r) == req[r].pc = "done"

Stages(r) == {req[r].log[i].stage : i \in 1..Len(req[r].log)}

\* the one response of a finished request
Response(r) == req[r].responses[1]

\* C1: a per-request pool that was opened is ended exactly once by the time the
\* request has finished, whatever the exit path: never left open, never ended twice.
C1_PoolEndedExactlyOnce ==
  \A r \in Reqs : (Done(r) /\ req[r].dbPool) => req[r].poolEnds = 1

\* C2: every request that has arrived ends with a response, given that each call
\* it awaits returns or fails in the end.
C2_RequestTerminates ==
  \A r \in Reqs : (req[r].pc # "idle") ~> (Done(r) /\ Len(req[r].responses) >= 1)

\* C3: one call of askAIForRelevantTables by the handler issues at most two LLM
\* calls, the first and one retry.
C3_AtMostTwoRelevanceCalls ==
  \A r \in Reqs : req[r].llmCalls.rel <= 2

\* C4: the statement sent to the database is the generated SQL when validateSQL
\* accepts it and the output of generateFallbackSQL(relevantTables, question) when
\* it rejects it; a rejected statement is never sent, and a rejection never ends
\* the request with an error response: the request goes on to the execution.
C4_InvalidSQLReplaced ==
  \A r \in Reqs :
    /\ "execute" \in Stages(r) =>
         /\ validateSQL(req[r].generatedSQL).valid => req[r].executed = req[r].generatedSQL
         /\ ~validateSQL(req[r].generatedSQL).valid =>
              /\ req[r].executed = generateFallbackSQL(req[r].relevantTables, req[r].question)
              /\ req[r].executed # req[r].generatedSQL
    /\ ("validate" \in Stages(r) /\ ~req[r].validation.valid /\ Done(r)) =>
         "execute" \in Stages(r)

C4_Witness ==
  \E r \in Reqs :
    /\ Done(r)
    /\ "execute" \in Stages(r)
    /\ ~validateSQL(req[r].generatedSQL).valid
    /\ Response(r).status = 200

\* C5: a request gets exactly one response: the handler never calls json() a
\* second time and nothing is thrown out of it.
C5_ExactlyOneResponse ==
  \A r \in Reqs :
    /\ req[r].sendAttempts <= 1
    /\ ~req[r].escaped
    /\ Done(r) => Len(req[r].responses) = 1

StageOrder ==
  <<"session", "context", "tables", "relevance", "columns", "sqlgen", "validate",
    "execute", "chart", "answer", "persist", "respond">>

Rank(stage) == CHOOSE i \in 1..Len(StageOrder) : StageOrder[i] = stage

\* the stage that begins at next comes right after the stage that ended at prev
Follows(names, prev, next) ==
  \/ next.stage = "respond"
  \/ /\ prev.stage = "columns"
     /\ next.stage = "columns"
     /\ \E k \in 1..(Len(names) - 1) : prev.table = names[k] /\ next.table = names[k + 1]
  \/ /\ prev.stage = "relevance"
     /\ next.stage = "columns"
     /\ Len(names) > 0
     /\ next.table = names[1]
  \/ /\ prev.stage = "columns"
     /\ next.stage = "sqlgen"
     /\ prev.table = names[Len(names)]
  \/ /\ "columns" \notin {prev.stage, next.stage}
     /\ Rank(next.stage) = Rank(prev.stage) + 1

\* C6: the stages of a request run one after another in the order of StageOrder:
\* each stage ends before another begins, the next stage to begin is the next of
\* the order (or the response, on an error), and the columns are fetched one
\* table at a time in the order of the relevant tables.
C6_StagesSequential ==
  \A r \in Reqs :
    LET log == req[r].log
    IN  \A i \in 1..Len(log) :
          IF i % 2 = 1
          THEN /\ log[i].ev = "begin"
               /\ IF i = 1 THEN log[i].stage \in {"session", "respond"}
                  ELSE Follows(req[r].relevantTableNames, log[i - 1], log[i])
          ELSE /\ log[i].ev = "end"
               /\ log[i].stage = log[i - 1].stage
               /\ log[i].table = log[i - 1].table

C6_Witness ==
  \E r \in Reqs :
    /\ Done(r)
    /\ Len(req[r].relevantTables) = 2
    /\ Len(req[r].log) = 2 * (Len(StageOrder) + 1)
    /\ Response(r).status = 200

\* C7: once relevance selection has returned an empty list the request ends with
\* the 400 response 'No relevant tables found', and nothing of the later stages
\* happens: no columns, no SQL generated or executed, no answer call, no append.
C7_EmptyRelevanceStops ==
  \A r \in Reqs :
    (req[r].selected /\ req[r].relevantTableNames = <<>>) =>
      /\ Done(r)
      /\ req[r].responses = <<ErrorResponse(400, "No relevant tables found")>>
      /\ Stages(r) \cap {"columns", "sqlgen", "validate", "execute", "chart", "answer",
                         "persist"} = {}
      /\ req[r].relevantTables = <<>>
      /\ req[r].llmCalls.sql = 0
      /\ req[r].llmCalls.ans = 0
      /\ req[r].messageSaved = "unset"

C7_Witness ==
  \E r \in Reqs :
    /\ req[r].selected
    /\ req[r].relevantTableNames = <<>>
    /\ Len(req[r].allTables) > 0
    /\ Done(r)

\* C8: when the append of the turn failed (the store threw, or no document was
\* modified) the request still ends with the success response, which carries the
\* computed answer, SQL, results and chart data.
C8_PersistFailureStillSucceeds ==
  \A r \in Reqs :
    (req[r].messageSaved = "no" /\ Done(r)) =>
      /\ Len(req[r].responses) = 1
      /\ Response(r).status = 200
      /\ Response(r).answer = req[r].naturalAnswer
      /\ Response(r).sql = req[r].executed
      /\ Response(r).results = sliceFirst(req[r].results, 5)
      /\ Response(r).chart_data = req[r].chartData

C8_Witness ==
  \E r \in Reqs :
    /\ req[r].messageSaved = "no"
    /\ Done(r)
    /\ Len(req[r].results) > 0
    /\ req[r].chartData # NoChart

\* C9: without an API key no LLM call is issued: the relevant tables are those of
\* the keyword heuristic, the SQL (when not taken from the previous turn) is the
\* simple SELECT, the answer is the count of the results, and a request that has
\* arrived and not yet responded can always take its next step.
C9_NoKeyNoLLMCalls ==
  ~AI_API_KEY =>
    \A r \in Reqs :
      /\ req[r].llmCalls = NoCalls
      /\ req[r].selected =>
           req[r].relevantTableNames =
             keywordFallback(req[r].question, req[r].allTables, req[r].chatHistory)
      /\ ("sqlgen" \in Stages(r) /\ ~req[r].reused) =>
           req[r].generatedSQL = simpleSelectFallback(req[r].relevantTables)
      /\ "persist" \in Stages(r) => req[r].naturalAnswer = foundResultsAnswer(req[r].results)
      /\ Done(r) => Len(req[r].responses) = 1
      /\ req[r].pc \notin {"idle", "done"} => ENABLED Step(r)

C9_Witness ==
  /\ ~AI_API_KEY
  /\ \E r \in Reqs :
       /\ Done(r)
       /\ req[r].messageSaved = "yes"
       /\ Response(r).status = 200

\* C10: whatever the interleaving of the createSessionIfNotExists calls of
\* concurrent requests, the store holds at most one session record per session id
\* (and exactly one once a call has returned).
C10_OneSessionPerId ==
  \A i, j \in 1..Len(sessions) :
    sessions[i].session_id = sessions[j].session_id => i = j

(***************************************************************************)
(* Properties of concurrent requests                                       *)
(***************************************************************************)

\* the requests whose turn addMessageToSession appended to session id
Saved(id) == {r \in Reqs : req[r].currentSessionId = id /\ req[r].messageSaved = "yes"}

\* the turn list of session id (of the document findOne and updateOne select)
MessagesOf(id) == IF FindSession(id) = 0 THEN <<>> ELSE sessions[FindSession(id)].messages

\* C11: the turns of concurrent requests on one session are all in the session's
\* turn list after their appends, each at a position of its own, in one of the
\* possible orders: no append overwrites or loses the turn of another request.
C11_ConcurrentAppendsKept ==
  \A id \in load.sessionIds :
    LET messages == MessagesOf(id)
    IN  \E at \in [Saved(id) -> 1..Len(messages)] :
          /\ \A r \in Saved(id) : messages[at[r]] = Turn(req[r])
          /\ \A r1, r2 \in Saved(id) : at[r1] = at[r2] => r1 = r2

C11_Witness ==
  /\ Cardinality(Saved("s1")) = 2
  /\ Len(MessagesOf("s1")) = 2
  /\ \E r \in Reqs : req[r].pc = "add_update" \/ req[r].pc = "respond"

\* C12: at most one MongoClient is ever created, whatever the interleaving of the
\* getMongoClient calls, and every caller gets that client.
C12_OneMongoClient ==
  /\ mongoClients <= 1
  /\ \A r1, r2 \in Reqs :
       (req[r1].client # 0 /\ req[r2].client # 0) => req[r1].client = req[r2].client

\* C13: no relational pool is used by two ask requests: the listing, the column
\* fetches and the execution of a request run on a pool of its own, also when the
\* request names no connection_id.
C13_PoolExclusive ==
  \A r1, r2 \in Reqs :
    (r1 # r2 /\ req[r1].sqlPool # "none" /\ req[r2].sqlPool # "none") =>
      (req[r1].sqlPool = "own" /\ req[r2].sqlPool = "own")

(***************************************************************************)
(* Properties of the session history                                       *)
(***************************************************************************)

IsPrefix(s, t) == Len(s) <= Len(t) /\ \A i \in 1..Len(s) : s[i] = t[i]

\* C14: the history of a session is append-only: whatever operation runs on it
\* (ask, reset-session-history, clear chat history, restore), every turn stored
\* before the step is still there, unchanged and at its place: the turn list
\* before the step is a prefix of the one after it.
C14_HistoryAppendOnly ==
  [][\A i \in 1..Len(sessions) :
       /\ i <= Len(sessions')
       /\ IsPrefix(sessions[i].messages, sessions'[i].messages)]_vars

(***************************************************************************)
(* Properties of the chart                                                 *)
(***************************************************************************)

\* a row of the result set yields a number for a chart of this type: its
\* second column for bar, line and pie, its first and second for scatter
NumericRow(row, chartType) ==
  /\ Len(row) >= 2
  /\ ~parseFloat(row[2].v).nan
  /\ chartType = "scatter" => ~parseFloat(row[1].v).nan

\* a chart is there only for a question detectChartRequest classified as a
\* request, over a non-empty result set with a numeric row, and holds data
ChartJustified(chart, question, rows, count) ==
  chart # NoChart =>
    /\ detectChartRequest(question).requested
    /\ count > 0
    /\ \E i \in 1..Len(rows) : NumericRow(rows[i], chart.type)
    /\ Len(chart.data) > 0

\* C15: in every ask response and every persisted turn chart_data is non-null
\* only if the question was classified as a chart request, the result set was
\* non-empty and a row yielded a numeric value (for scatter a numeric x and y);
\* otherwise it is null, never a chart with empty data.
C15_ChartOnlyWhenJustified ==
  /\ \A r \in Reqs : \A k \in 1..Len(req[r].responses) :
       ChartJustified(req[r].responses[k].chart_data, req[r].question, req[r].results,
                      Len(req[r].results))
  /\ \A i \in 1..Len(sessions) : \A j \in 1..Len(sessions[i].messages) :
       LET m == sessions[i].messages[j]
       IN  ChartJustified(m.chart_data, m.question, m.result_sample, m.result_count)

C15_Witness ==
  \E r \in Reqs :
    /\ Len(req[r].responses) = 1
    /\ Response(r).chart_data.type = "scatter"
    /\ req[r].messageSaved = "yes"
    /\ \E i \in 1..Len(sessions) : \E j \in 1..Len(sessions[i].messages) :
         sessions[i].messages[j].chart_data = req[r].chartData

(***************************************************************************)
(* Properties of the pure functions                                        *)
(***************************************************************************)

Returned(fn) == probe.fn = fn /\ probe.returned

\* C16: cleanSQLResponse is idempotent: cleaning a cleaned text gives the same text.
C16_CleanIdempotent ==
  Returned("cleanSQLResponse") => cleanSQLResponse(probe.result) = probe.result

\* C17: for every text cleanSQLResponse returns a non-empty text whose last
\* character is ';' and whose second-to-last character, if any, is not ';'.
C17_EndsWithOneSemicolon ==
  Returned("cleanSQLResponse") =>
    LET out == probe.result
    IN  /\ Len(out) > 0
        /\ out[Len(out)] = ";"
        /\ Len(out) > 1 => out[Len(out) - 1] # ";"

C17_Witness ==
  /\ Returned("cleanSQLResponse")
  /\ probe.args[1] = <<"x", ";", ";">>
  /\ probe.result = <<"x", ";">>

\* C18: validateSQL answers valid = false for every text with an odd number of
\* single quotes or an odd number of double quotes, and for null, the empty
\* text, a text of white space only and a lone semicolon.
C18_ValidateRejects ==
  Returned("validateSQL") =>
    LET sql == probe.args[1]
        odd(q) == CountChar(sql, q) % 2 = 1
        blank == \A i \in 1..Len(sql) : IsSpace(sql[i])
        loneSemicolon ==
          /\ CountChar(sql, ";") = 1
          /\ \A i \in 1..Len(sql) : sql[i] = ";" \/ IsSpace(sql[i])
    IN  (sql = Null \/ odd("'") \/ odd("\"") \/ blank \/ loneSemicolon)
          => ~probe.result.valid

C18_Witness ==
  /\ Returned("validateSQL")
  /\ probe.args[1] = kSELECT \o <<" ", "'">>
  /\ probe.result = [valid |-> FALSE, error |-> "Unterminated single quotes"]

\* C19: with an LLM key and a non-empty result set, when the LLM text holds none
\* of the string forms of the values of the first 3 result rows, the answer is
\* the templated key: value fallback of the first 3 rows and not the LLM text.
C19_UngroundedInFirstThreeFallsBack ==
  Returned("generateNaturalLanguageAnswer") =>
    LET aiResponse == probe.args[1]
        results == probe.args[2]
        shown == sliceFirst(results, 3)
    IN  (/\ Len(results) > 0
         /\ \A i \in 1..Len(shown) : \A j \in 1..Len(shown[i]) :
              ~includes(aiResponse, String(shown[i][j].v)))
          => probe.result = templatedAnswer(results)

\* C20: without an LLM key askAIForRelevantTables returns the tables_used of the
\* most recent turn, unchanged, when the question holds a follow-up indicator
\* and the history is not empty; otherwise the tables that match the question,
\* in the order of the table list, cut to the first 2.
C20_KeywordFallback ==
  Returned("askAIForRelevantTables") =>
    LET questionLower == toLowerCase(probe.args[1])
        allTables == probe.args[2]
        chatHistory == probe.args[3]
        followUp == \E w \in Range(followUpIndicators) : includes(questionLower, w)
        matching == {i \in 1..Len(allTables) : KeywordMatch(questionLower, allTables[i])}
        nth(k) == CHOOSE i \in matching : Cardinality({j \in matching : j < i}) = k - 1
    IN  IF followUp /\ Len(chatHistory) > 0
        THEN probe.result = chatHistory[Len(chatHistory)].tables_used
        ELSE /\ Len(probe.result) = (IF Cardinality(matching) > 2 THEN 2 ELSE Cardinality(matching))
             /\ \A k \in 1..Len(probe.result) : probe.result[k] = allTables[nth(k)]

C20_Witness ==
  /\ Returned("askAIForRelevantTables")
  /\ probe.args = <<qShowUsers, <<tOrders, tUsers>>, <<priorTurn, widerTurn>>>>
  /\ probe.result = <<tUserRoles, tOrders, tUsers>>

\* C21: in LLM mode and in fallback mode alike, every table name
\* askAIForRelevantTables returns is an element of the table list it was given.
C21_ReturnedTablesAreListed ==
  (Returned("askAIForRelevantTables") \/ Returned("askAIForRelevantTablesLLM")) =>
    \A k \in 1..Len(probe.result) : probe.result[k] \in Range(probe.args[2])

(***************************************************************************)
(* Further properties of handleAskRequest                                  *)
(***************************************************************************)

\* C22: a request without a question or without connection information is
\* rejected with an input error before any session is created and before any
\* database or LLM operation: it gets no document-store client, opens and uses
\* no pool, makes no LLM call, and its response is a 400.
C22_MissingInputRejectedFirst ==
  \A r \in Reqs :
    (req[r].pc # "idle" /\ (Len(req[r].question) = 0 \/ req[r].connection_id = "")) =>
      /\ req[r].client = 0
      /\ ~req[r].dbPool
      /\ req[r].sqlPool = "none"
      /\ req[r].llmCalls = NoCalls
      /\ Done(r) => (Len(req[r].responses) >= 1 /\ Response(r).status = 400)

IsSuffix(s, t) ==
  Len(s) <= Len(t) /\ \A i \in 1..Len(s) : s[i] = t[Len(t) - Len(s) + i]

\* the stored turn list of the request's session without the turn the request
\* itself appended
StoredBefore(r) ==
  LET messages == MessagesOf(req[r].currentSessionId)
  IN  IF req[r].messageSaved = "yes" THEN SubSeq(messages, 1, Len(messages) - 1)
      ELSE messages

\* C23: the history handed to relevance selection, SQL generation and answer
\* synthesis is a suffix of at most 6 turns of the stored turn list, in stored
\* order, and each of the three reads at most its last 2 turns for a prompt.
C23_HistoryBounded ==
  \A r \in Reqs :
    /\ Len(req[r].chatHistory) <= 6
    /\ IsSuffix(req[r].chatHistory, StoredBefore(r))
    /\ \A kind \in {"rel", "sql", "ans"} :
         /\ Len(req[r].context[kind]) <= 2
         /\ IsSuffix(req[r].context[kind], req[r].chatHistory)

C23_Witness ==
  \E r \in Reqs :
    /\ Done(r)
    /\ Len(req[r].chatHistory) = 6
    /\ req[r].messageSaved = "yes"
    /\ Len(MessagesOf(req[r].currentSessionId)) = 8
    /\ \A kind \in {"rel", "sql", "ans"} : Len(req[r].context[kind]) = 2

\* C24: askAIForSQL and generateNaturalLanguageAnswer issue at most one LLM call
\* each; when the call fails they return their fallback (the SELECT ... LIMIT 5
\* on the first table, or SELECT 1; the text 'Found N results from the query.')
\* and the handler never sees an exception from them.
C24_OneCallThenFallback ==
  \A r \in Reqs :
    /\ req[r].llmCalls.sql <= 1
    /\ req[r].llmCalls.ans <= 1
    /\ "sql" \in req[r].llmFailed =>
         /\ req[r].generatedSQL = simpleSelectFallback(req[r].relevantTables)
         /\ req[r].pc # "sqlgen"
    /\ "ans" \in req[r].llmFailed =>
         /\ req[r].naturalAnswer = foundResultsAnswer(req[r].results)
         /\ req[r].pc # "answer"
    /\ \A k \in 1..Len(req[r].responses) :
         req[r].responses[k].error \notin
           {"Failed to generate SQL", "Failed to generate natural language answer"}

C24_Witness ==
  \E r \in Reqs :
    /\ Done(r)
    /\ req[r].llmFailed = {"sql", "ans"}
    /\ req[r].llmCalls.sql = 1
    /\ req[r].llmCalls.ans = 1
    /\ Response(r).status = 200

\* the request has left the SQL generation step
Generated(r) ==
  \E i \in 1..Len(req[r].log) : req[r].log[i] = StageEvent("sqlgen", "end", <<>>)

\* sql is previousQuery with ' ORDER BY 1;' in the place of its final
\* semicolon and white space
OrderByAppended(sql, previousQuery) ==
  \E n \in 0..Len(previousQuery) :
    /\ sql = SubSeq(previousQuery, 1, n) \o <<" ","O","R","D","E","R"," ","B","Y"," ","1",";">>
    /\ \A i \in (n + 1)..Len(previousQuery) : previousQuery[i] = ";" \/ IsSpace(previousQuery[i])
    /\ n > 0 => ~(previousQuery[n] = ";" \/ IsSpace(previousQuery[n]))

\* C25: for a visualization follow-up whose most recent history turn has SQL
\* the handler makes no SQL-generation LLM call and uses that turn's SQL, as it
\* is when it contains ORDER BY, else with ' ORDER BY 1;' at its end; in every
\* other case askAIForSQL is called exactly once.
C25_VisualizationReusesSQL ==
  \A r \in Reqs : Generated(r) =>
    LET chatHistory == req[r].chatHistory
        previousQuery == chatHistory[Len(chatHistory)].sql_query
        started == {i \in 1..Len(req[r].log) : req[r].log[i] = StageEvent("sqlgen", "begin", <<>>)}
    IN  IF isVisualizationRequest(req[r].question) /\ hasPreviousResults(chatHistory)
        THEN /\ req[r].llmCalls.sql = 0
             /\ req[r].reused
             /\ IF includes(toLowerCase(previousQuery), <<"o","r","d","e","r"," ","b","y">>)
                THEN req[r].generatedSQL = previousQuery
                ELSE OrderByAppended(req[r].generatedSQL, previousQuery)
             /\ "execute" \in Stages(r) => req[r].executed = req[r].generatedSQL
        ELSE /\ ~req[r].reused
             /\ Cardinality(started) = 1
             /\ req[r].llmCalls.sql = (IF AI_API_KEY THEN 1 ELSE 0)

C25_Witness ==
  \E r \in Reqs :
    /\ Done(r)
    /\ req[r].reused
    /\ Len(req[r].chatHistory) = 2
    /\ req[r].executed = orderedTurn.sql_query
    /\ Response(r).status = 200

\* C26: on the request's own pool and on the default pool alike, of an SQL
\* string of several statements separated by ';' only the first is sent to the
\* database: nothing but white space follows a ';' in the text sent.
C26_OnlyFirstStatementSent ==
  \A r \in Reqs :
    \A i \in 1..Len(req[r].sent) :
      req[r].sent[i] = ";" =>
        \A j \in (i + 1)..Len(req[r].sent) : IsSpace(req[r].sent[j])

(***************************************************************************)
(* Further properties of cleanSQLResponse                                  *)
(***************************************************************************)

\* the only defect of text is a quote q left open: closing it gives a text
\* validateSQL accepts, and the text holds no fence or backtick to rewrite
OnlyOpenQuote(text, q) ==
  /\ CountChar(text, q) % 2 = 1
  /\ CountChar(text, Backquote) = 0
  /\ validateSQL(Append(text, q)).valid

\* C27: for an input whose only defect is one unterminated single or double
\* quote, cleanSQLResponse closes it: the output holds an even number of that
\* quote character.
C27_OpenQuoteClosed ==
  Returned("cleanSQLResponse") =>
    \A q \in {"'", "\""} :
      OnlyOpenQuote(probe.args[1], q) => CountChar(probe.result, q) % 2 = 0

\* C28: cleanSQLResponse preserves validity: the output for an input that
\* validateSQL accepts is accepted by validateSQL too, also when the input holds
\* single-quoted literals and double-quoted identifiers.
C28_CleanPreservesValidity ==
  Returned("cleanSQLResponse") =>
    (validateSQL(probe.args[1]).valid => validateSQL(probe.result).valid)

(***************************************************************************)
(* Properties of the session after a failed request                        *)
(***************************************************************************)

\* C29: a request that ends with an error response appends no turn: the turn
\* list of its session after the request is the one before it, whatever the
\* step the request failed at.
C29_ErrorAppendsNothing ==
  \A r \in Reqs :
    (Done(r) /\ Len(req[r].responses) >= 1 /\ Response(r).status # 200) =>
      /\ req[r].messageSaved # "yes"
      /\ MessagesOf(req[r].currentSessionId) = req[r].turnsBefore

C29_Witness ==
  \E r \in Reqs :
    /\ Done(r)
    /\ Response(r).error = "Failed to execute SQL query"
    /\ Len(req[r].turnsBefore) = 1
    /\ MessagesOf(req[r].currentSessionId) = req[r].turnsBefore

(***************************************************************************)
(* Properties of generateResponse                                          *)
(***************************************************************************)

\* C30: generateResponse ends its pool exactly once and attempts no query on
\* it after that; when the generated SQL fails with a SQL or syntax error, the
\* fallback runs SELECT * ... LIMIT 5 on the first table and the call returns
\* success: true with those rows.
C30_EmbedPoolAndFallback ==
  (probe.fn = "generateResponse" /\ probe.returned) =>
    /\ probe.poolEnds = 1
    /\ probe.queriesAfterEnd = 0
    /\ (probe.thrown /\ Len(probe.sqlQuery) > 0 /\ isSQLError(probe.error)) =>
         /\ probe.result.success
         /\ \E i \in 1..Len(probe.allTables) :
              probe.result.sql =
                kSELECT \o <<" ", "*">> \o kFROM \o Quoted(probe.allTables[i])
                  \o <<" ","L","I","M","I","T"," ","5">>

====
